---- MODULE Spec2Model ----
(***************************************************************************)
(* Model of the DEIMOS beamline notebook (src/unnamed/part_000): the       *)
(* optical elements, the combinatorial construction of Deimos.chains, and  *)
(* the alignment procedure align_undulator / align_m1 / align_mono driven  *)
(* by set_bl.                                                              *)
(*                                                                         *)
(* Units.  Angles are integers in millidegrees, distances in millimetres,  *)
(* wavelengths in picometres, energies in eV, cff in hundredths.  Names    *)
(* are sequences of one-character strings so that Python's substring test  *)
(* (`"65" in name`), str.lower and str.split are computed, not assumed.    *)
(***************************************************************************)
EXTENDS Integers, Sequences, FiniteSets, TLC

VARIABLES
    oe,            \* element -> [theta, distance_from_previous, next, tuned, beta]
    chains,        \* Deimos.chains: chain name -> sequence of elements
    build,         \* position of the construction loop <<iu, im, ig, if>>
    active,        \* Deimos.active_chain_name (None before the first selection)
    pc,            \* 0 when no set_bl call is running, else index into Program
    req,           \* arguments of the running (or last) set_bl call
    err,           \* exception that ended the last set_bl call ("none" if none)
    trace,         \* steps executed by the running (or last) set_bl call
    oe0,           \* oe as it was when the running (or last) set_bl call started
    last,          \* <<chain name, request>> of the previous set_bl call that aligned
    rays,          \* ray batches at the source: sequence of [call, wvl]
    impacts,       \* set of set_bl calls whose rays are recorded on the elements
    calls,         \* number of set_bl calls started
    sw,            \* the frame of beamline_energy_resolution: its arguments and locals
    resolution,    \* the notebook's variable `resolution`, bound when a sweep returns
    log,           \* the get_resolution calls of the running (or last) sweep
    st             \* the frame of the beam-statistics cell: its globals and its position

vars == <<oe, chains, build, active, pc, req, err, trace, oe0, last, rays, impacts, calls,
          sw, resolution, log, st>>

None == "None"

\* Number of set_bl calls explored.
MaxCalls == 2

-----------------------------------------------------------------------------
(* Python string helpers, on sequences of characters.                      *)

RECURSIVE Lower(_)
LowerChar(c) ==
    CASE c = "A" -> "a" [] c = "B" -> "b" [] c = "C" -> "c" [] c = "E" -> "e"
      [] c = "G" -> "g" [] c = "I" -> "i" [] c = "L" -> "l" [] c = "M" -> "m"
      [] c = "N" -> "n" [] c = "R" -> "r" [] c = "S" -> "s" [] c = "T" -> "t"
      [] c = "U" -> "u" [] c = "V" -> "v" [] c = "W" -> "w"
      [] OTHER -> c

Lower(s) == IF s = <<>> THEN <<>> ELSE <<LowerChar(Head(s))>> \o Lower(Tail(s))

\* `sub in s`
Contains(sub, s) ==
    \E i \in 1..(Len(s) - Len(sub) + 1) : SubSeq(s, i, i + Len(sub) - 1) = sub

\* s.split(c) for a one-character separator c
RECURSIVE SplitFrom(_, _, _)
SplitFrom(s, c, cur) ==
    IF s = <<>> THEN <<cur>>
    ELSE IF Head(s) = c THEN <<cur>> \o SplitFrom(Tail(s), c, <<>>)
    ELSE SplitFrom(Tail(s), c, Append(cur, Head(s)))

Split(s, c) == SplitFrom(s, c, <<>>)

-----------------------------------------------------------------------------
(* Optical elements declaration.                                           *)

Undulators == <<"undulator_U52", "undulator_U65", "undulator_SII">>
M1 == <<"m1b", "m1c">>
Gratings == <<"grating_1600", "grating_2400">>
Wolters == << <<"m4a", "m5a">>, <<"m4b", "m5b">>, <<>> >>
Endstations == <<"cromag", "mk2t">>

\* An element that is not part of the notebook's beamline: a grating named in
\* French and in mixed case, used only by hand-made paths given to align_mono.
ExtraElements == {"reseau_vls"}

Declared ==
    {"undulator_U52", "undulator_U65", "undulator_SII", "pupil", "m1a", "m1b", "m1c",
     "grating_1600", "grating_2400", "m2", "m3", "foc_hor", "mono_exit_slit",
     "m4a", "m4b", "m5a", "m5b", "cromag", "mk2t"}

Elements == Declared \cup ExtraElements

\* The `name=` given to each element's constructor.
Name(e) ==
    CASE e = "undulator_U52" -> <<"U", "5", "2">>
      [] e = "undulator_U65" -> <<"U", "6", "5">>
      [] e = "undulator_SII" -> <<"S", "I", "I">>
      [] e = "pupil" -> <<"p", "u", "p", "i", "l">>
      [] e = "m1a" -> <<"M", "1", "A">>
      [] e = "m1b" -> <<"M", "1", "B">>
      [] e = "m1c" -> <<"M", "1", "C">>
      [] e = "grating_1600" -> <<"g", "r", "a", "t", "i", "n", "g", "_", "1", "6", "0", "0">>
      [] e = "grating_2400" -> <<"g", "r", "a", "t", "i", "n", "g", "_", "2", "4", "0", "0">>
      [] e = "m2" -> <<"M", "2">>
      [] e = "m3" -> <<"M", "3">>
      [] e = "foc_hor" -> <<"m", "o", "n", "o", "_", "f", "o", "c", "_", "h", "o", "r">>
      [] e = "mono_exit_slit" -> <<"m", "o", "n", "o", "_", "f", "o", "c", "_", "v", "e", "r">>
      [] e = "m4a" -> <<"M", "4", "A">>
      [] e = "m4b" -> <<"M", "4", "B">>
      [] e = "m5a" -> <<"M", "5", "A">>
      [] e = "m5b" -> <<"M", "5", "B">>
      [] e = "cromag" -> <<"c", "r", "o", "m", "a", "g">>
      [] e = "mk2t" -> <<"m", "k", "2", "t">>
      [] e = "reseau_vls" -> <<"R", "e", "s", "e", "a", "u", "_", "V", "L", "S">>

\* grating.line_density in lines per millimetre, grating.order_align
LineDensity(g) == IF g = "grating_2400" THEN 2400 ELSE 1600
OrderAlign(g) == 1

-----------------------------------------------------------------------------
(* Construction of Deimos.chains.                                          *)

\* The construction with the grating left out of the common part of the path.
BeamlineWithoutGrating(undulator, m1bis, grating) ==
    <<undulator, "pupil", "m1a", m1bis, "m2", "m3", "foc_hor", "mono_exit_slit">>

\* The construction with the grating placed after the two mirrors of the monochromator.
BeamlineGratingAfterMirrors(undulator, m1bis, grating) ==
    <<undulator, "pupil", "m1a", m1bis, "m2", "m3", grating, "foc_hor", "mono_exit_slit">>

\* beamline = [undulator, pupil, m1a, m1bis, grating, m2, m3, foc_hor, mono_exit_slit]
Beamline(undulator, m1bis, grating) ==
    <<undulator, "pupil", "m1a", m1bis, grating, "m2", "m3", "foc_hor", "mono_exit_slit">>

\* f"{undulator.name}_{m1bis.name}_G{grating.name.split('_')[1]}"
ChainPrefix(undulator, m1bis, grating) ==
    Name(undulator) \o <<"_">> \o Name(m1bis) \o <<"_", "G">> \o Split(Name(grating), "_")[2]

\* The chain name without the grating.
ChainNameWithoutGrating(undulator, m1bis, grating, focusing) ==
    IF Len(focusing) > 1
    THEN Name(undulator) \o <<"_">> \o Name(m1bis) \o <<"_", "W", "L", "T", "_">>
             \o <<Name(focusing[Len(focusing) - 1])[Len(Name(focusing[Len(focusing) - 1]))]>>
    ELSE Name(undulator) \o <<"_">> \o Name(m1bis) \o <<"_", "m", "o", "n", "o">>

\* One iteration of the innermost loop: the key and the list stored in Deimos.chains.
ChainName(undulator, m1bis, grating, focusing) ==
    IF Len(focusing) > 1
    THEN ChainPrefix(undulator, m1bis, grating) \o <<"_", "W", "L", "T", "_">>
             \o <<Name(focusing[Len(focusing) - 1])[Len(Name(focusing[Len(focusing) - 1]))]>>
    ELSE ChainPrefix(undulator, m1bis, grating) \o <<"_", "m", "o", "n", "o">>

ChainValue(undulator, m1bis, grating, focusing) ==
    IF Len(focusing) > 1
    THEN Beamline(undulator, m1bis, grating) \o focusing \o Endstations
    ELSE Beamline(undulator, m1bis, grating)

\* d[k] = v on a Python dict
DictSet(d, k, v) == [x \in DOMAIN d \cup {k} |-> IF x = k THEN v ELSE d[x]]

\* The loop indices after one more iteration, innermost index first; <<>> when done.
NextIndex(ix) ==
    IF ix[4] < Len(Wolters) THEN <<ix[1], ix[2], ix[3], ix[4] + 1>>
    ELSE IF ix[3] < Len(Gratings) THEN <<ix[1], ix[2], ix[3] + 1, 1>>
    ELSE IF ix[2] < Len(M1) THEN <<ix[1], ix[2] + 1, 1, 1>>
    ELSE IF ix[1] < Len(Undulators) THEN <<ix[1] + 1, 1, 1, 1>>
    ELSE <<>>

BuildStep(d, ix) ==
    DictSet(d,
            ChainName(Undulators[ix[1]], M1[ix[2]], Gratings[ix[3]], Wolters[ix[4]]),
            ChainValue(Undulators[ix[1]], M1[ix[2]], Gratings[ix[3]], Wolters[ix[4]]))

\* The loop from position ix on.  Python performs each assignment before the next
\* iteration; the test on the keys makes the evaluation do the same instead of
\* deferring all the assignments to the end.
RECURSIVE BuildFrom(_, _)
BuildFrom(d, ix) ==
    IF ix = <<>> THEN d
    ELSE LET stored == BuildStep(d, ix)
         IN  IF DOMAIN stored # {} THEN BuildFrom(stored, NextIndex(ix)) ELSE stored

EmptyDict == [x \in {} |-> <<>>]

\* Deimos.chains once the construction loop has run to its end.
BuiltChains == BuildFrom(EmptyDict, <<1, 1, 1, 1>>)

-----------------------------------------------------------------------------
(* Definition of optical parameters.                                       *)

\* hc = h*c/eV, in pm*eV
hc == 1239842

\* hc/energy
Wavelength(energy) == hc \div energy

\* m1_grazing_angles = [2.53*degree, 1.19*degree]
m1_grazing_angles == <<2530, 1190>>

\* m1_distances = opx.M1_triad_distances(incident_angle=m1_grazing_angles,
\* transverse_distance=41e-3): per branch <<distance M1A to M1bis, its projection
\* on the incoming beam>>, the deviation of a mirror being twice its grazing angle.
m1_distances == << <<465, 463>>, <<987, 986>> >>

\* A field the notebook never assigns keeps the engine's default.
DefaultElement ==
    [theta |-> 0, distance_from_previous |-> 0, next |-> None, tuned |-> 0, beta |-> 0]

Static(theta, dist, next) ==
    [theta |-> theta, distance_from_previous |-> dist, next |-> next, tuned |-> 0, beta |-> 0]

\* The elements after the cells of "Definition of optical parameters" have run.
StaticOE ==
    [e \in Elements |->
        CASE e = "pupil" -> Static(0, 21000, "m1a")
          [] e = "m1a" -> Static(0, 0, None)
          [] e = "m1b" -> Static(2530, m1_distances[1][1], None)
          [] e = "m1c" -> Static(1200, m1_distances[2][1], None)
          [] e = "grating_1600" -> Static(0, 5000, "m2")
          [] e = "grating_2400" -> Static(0, 5000, "m2")
          [] e = "m2" -> Static(0, 0, "m3")
          [] e = "m3" -> Static(1200, 0, "foc_hor")
          [] e = "foc_hor" -> Static(0, 200, "mono_exit_slit")
          [] e = "mono_exit_slit" -> Static(0, 3800, None)
          [] e = "m4a" -> Static(1200, 5500, "m5a")
          [] e = "m4b" -> Static(1200, 5500, "m5b")
          [] e = "m5a" -> Static(1200, 400, "cromag")
          [] e = "m5b" -> Static(1200, 400, "cromag")
          [] e = "cromag" -> Static(0, 3000, "mk2t")
          [] e = "mk2t" -> Static(0, 1760, None)
          [] e = "reseau_vls" -> Static(0, 5000, "m2")
          [] OTHER -> DefaultElement]

\* electron_parameters[BeamLineName == src]["Long_Pos(m)"]: the straight section's
\* two source points, U65 being 1.8 m downstream of U52.
LongPos(src) == IF src = "DEIMOS_2" THEN 1800 ELSE 0

-----------------------------------------------------------------------------
(* The grating solver opx.align_grating and numpy's sin and tan, tabulated *)
(* on the operating points of the model.                                   *)

\* <<alpha, beta>> in millidegrees (grazing angles; deviation = alpha + beta).
\* "cff": sin(beta)/sin(alpha) = value/100 and cos(beta) - cos(alpha) = order*lambda*N.
\* "omega": alpha + beta = 2*value and the same grating equation.
SolverAngles(k, v, w, order, n) ==
    CASE k = "cff" /\ v = 10 /\ w = 4959 /\ n = 1600 -> <<7259, 724>>
      [] k = "cff" /\ v = 10 /\ w = 3099 /\ n = 1600 -> <<5737, 573>>
      [] k = "cff" /\ v = 10 /\ w = 2479 /\ n = 1600 -> <<5130, 512>>
      [] k = "cff" /\ v = 10 /\ w = 1653 /\ n = 1600 -> <<4189, 419>>
      [] k = "cff" /\ v = 10 /\ w = 1239 /\ n = 1600 -> <<3626, 362>>
      [] k = "cff" /\ v = 10 /\ w = 826 /\ n = 1600 -> <<2961, 296>>
      [] k = "cff" /\ v = 10 /\ w = 619 /\ n = 1600 -> <<2563, 256>>
      [] k = "cff" /\ v = 10 /\ w = 495 /\ n = 1600 -> <<2292, 229>>
      [] k = "cff" /\ v = 10 /\ w = 413 /\ n = 1600 -> <<2094, 209>>
      [] k = "cff" /\ v = 10 /\ w = 247 /\ n = 1600 -> <<1619, 162>>
      [] k = "cff" /\ v = 20 /\ w = 3099 /\ n = 1600 -> <<5826, 1163>>
      [] k = "cff" /\ v = 20 /\ w = 2479 /\ n = 1600 -> <<5210, 1041>>
      [] k = "cff" /\ v = 20 /\ w = 1239 /\ n = 1600 -> <<3683, 736>>
      [] k = "cff" /\ v = 20 /\ w = 826 /\ n = 1600 -> <<3007, 601>>
      [] k = "cff" /\ v = 20 /\ w = 3099 /\ n = 2400 -> <<7136, 1424>>
      [] k = "cff" /\ v = 20 /\ w = 826 /\ n = 2400 -> <<3683, 736>>
      [] k = "cff" /\ v = 50 /\ w = 4959 /\ n = 1600 -> <<8336, 4157>>
      [] k = "cff" /\ v = 50 /\ w = 3099 /\ n = 1600 -> <<6589, 3289>>
      [] k = "cff" /\ v = 50 /\ w = 2479 /\ n = 1600 -> <<5893, 2943>>
      [] k = "cff" /\ v = 50 /\ w = 1653 /\ n = 1600 -> <<4812, 2404>>
      [] k = "cff" /\ v = 50 /\ w = 1239 /\ n = 1600 -> <<4166, 2082>>
      [] k = "cff" /\ v = 50 /\ w = 826 /\ n = 1600 -> <<3402, 1700>>
      [] k = "cff" /\ v = 50 /\ w = 619 /\ n = 1600 -> <<2945, 1472>>
      [] k = "cff" /\ v = 50 /\ w = 495 /\ n = 1600 -> <<2633, 1316>>
      [] k = "cff" /\ v = 50 /\ w = 413 /\ n = 1600 -> <<2405, 1202>>
      [] k = "cff" /\ v = 50 /\ w = 247 /\ n = 1600 -> <<1860, 930>>
      [] k = "omega" /\ v = 500 /\ w = 4959 /\ n = 2400 -> <<43494, -42494>>
      [] k = "omega" /\ v = 500 /\ w = 3099 /\ n = 2400 -> <<25723, -24723>>
      [] k = "omega" /\ v = 500 /\ w = 2479 /\ n = 2400 -> <<20431, -19431>>
      [] k = "omega" /\ v = 500 /\ w = 1653 /\ n = 2400 -> <<13639, -12639>>
      [] k = "omega" /\ v = 500 /\ w = 1239 /\ n = 2400 -> <<10310, -9310>>
      [] k = "omega" /\ v = 500 /\ w = 826 /\ n = 2400 -> <<7022, -6022>>
      [] k = "omega" /\ v = 500 /\ w = 619 /\ n = 2400 -> <<5383, -4383>>
      [] k = "omega" /\ v = 500 /\ w = 495 /\ n = 2400 -> <<4403, -3403>>
      [] k = "omega" /\ v = 500 /\ w = 413 /\ n = 2400 -> <<3756, -2756>>
      [] k = "omega" /\ v = 500 /\ w = 247 /\ n = 2400 -> <<2446, -1446>>
      [] k = "omega" /\ v = 692 /\ w = 3099 /\ n = 1600 -> <<12538, -11154>>
      [] k = "omega" /\ v = 692 /\ w = 826 /\ n = 1600 -> <<3828, -2444>>
      [] k = "omega" /\ v = 692 /\ w = 4959 /\ n = 2400 -> <<30212, -28828>>
      [] k = "omega" /\ v = 692 /\ w = 3099 /\ n = 2400 -> <<18626, -17242>>
      [] k = "omega" /\ v = 692 /\ w = 2479 /\ n = 2400 -> <<14951, -13567>>
      [] k = "omega" /\ v = 692 /\ w = 1653 /\ n = 2400 -> <<10145, -8761>>
      [] k = "omega" /\ v = 692 /\ w = 1239 /\ n = 2400 -> <<7763, -6379>>
      [] k = "omega" /\ v = 692 /\ w = 826 /\ n = 2400 -> <<5400, -4016>>
      [] k = "omega" /\ v = 692 /\ w = 619 /\ n = 2400 -> <<4218, -2834>>
      [] k = "omega" /\ v = 692 /\ w = 495 /\ n = 2400 -> <<3511, -2127>>
      [] k = "omega" /\ v = 692 /\ w = 413 /\ n = 2400 -> <<3044, -1660>>
      [] k = "omega" /\ v = 692 /\ w = 247 /\ n = 2400 -> <<2098, -714>>
      [] k = "omega" /\ v = 0 -> <<0, 0>>

\* The conditions the solver knows; any other kind makes it raise.
SolverRaises(k) == k \notin {"omega", "cff"}

\* gdict of opx.align_grating(..., return_parameters=True)
AlignGrating(k, v, w, order, n) ==
    LET ab == SolverAngles(k, v, w, order, n)
    IN  [alpha |-> ab[1], beta |-> ab[2], deviation |-> ab[1] + ab[2]]

\* 1e5 * np.sin(a), 1e5 * np.tan(a) for a in millidegrees
Sin5(a) ==
    CASE a = 0 -> 0 [] a = 1000 -> 1745 [] a = 1384 -> 2415 [] a = 1781 -> 3108
      [] a = 2303 -> 4018 [] a = 2521 -> 4399 [] a = 2790 -> 4868 [] a = 2819 -> 4918
      [] a = 3257 -> 5681 [] a = 3607 -> 6291 [] a = 3608 -> 6293 [] a = 3949 -> 6887
      [] a = 3988 -> 6955 [] a = 4417 -> 7701 [] a = 4419 -> 7705 [] a = 4608 -> 8034
      [] a = 5102 -> 8893 [] a = 5642 -> 9831 [] a = 6248 -> 10883 [] a = 6251 -> 10888
      [] a = 6310 -> 10991
      [] a = 6989 -> 12168 [] a = 7216 -> 12561 [] a = 7983 -> 13888
      [] a = 8560 -> 14885 [] a = 8836 -> 15361 [] a = 9878 -> 17155
      [] a = 12493 -> 21632

Tan5(a) ==
    CASE a = 0 -> 0 [] a = 1000 -> 1746 [] a = 1384 -> 2416 [] a = 1781 -> 3109
      [] a = 2303 -> 4022 [] a = 2521 -> 4403 [] a = 2790 -> 4873 [] a = 2819 -> 4924
      [] a = 3257 -> 5691 [] a = 3607 -> 6304 [] a = 3608 -> 6305 [] a = 3949 -> 6903
      [] a = 3988 -> 6972 [] a = 4417 -> 7724 [] a = 4419 -> 7728 [] a = 4608 -> 8060
      [] a = 5102 -> 8928 [] a = 5642 -> 9879 [] a = 6248 -> 10948 [] a = 6251 -> 10954
      [] a = 6310 -> 11058
      [] a = 6989 -> 12259 [] a = 7216 -> 12661 [] a = 7983 -> 14024
      [] a = 8560 -> 15052 [] a = 8836 -> 15545 [] a = 9878 -> 17413
      [] a = 12493 -> 22157

-----------------------------------------------------------------------------
(* Alignment scripts.                                                      *)

\* kwargs.get(key, default)
KwGet(kwargs, key, default) == IF key \in DOMAIN kwargs THEN kwargs[key] ELSE default

\* Python's 0-based active_chain[i]
At(chain, i) == chain[i + 1]

\* align_undulator without `distance_from_previous = dist_slit`: the offset is taken
\* from whatever distance the aperture has.
AlignUndulatorInPlace(o, active_chain, wavelength, kwargs) ==
    LET o1 == [o EXCEPT ![At(active_chain, 0)].tuned = wavelength]
    IN  IF Contains(<<"6", "5">>, Name(At(active_chain, 0)))
        THEN [o1 EXCEPT ![At(active_chain, 1)].distance_from_previous =
                            @ - (LongPos("DEIMOS_2") - LongPos("DEIMOS_1"))]
        ELSE o1

\* align_undulator testing the source name for "5" instead of "65".
AlignUndulatorLooseTest(o, active_chain, wavelength, kwargs) ==
    LET dist_slit == KwGet(kwargs, "dist_slit", 21000)
        o1 == [o EXCEPT ![At(active_chain, 0)].tuned = wavelength]
        o2 == [o1 EXCEPT ![At(active_chain, 1)].distance_from_previous = dist_slit]
    IN  IF Contains(<<"5">>, Name(At(active_chain, 0)))
        THEN [o2 EXCEPT ![At(active_chain, 1)].distance_from_previous =
                            @ - (LongPos("DEIMOS_2") - LongPos("DEIMOS_1"))]
        ELSE o2

AlignUndulator(o, active_chain, wavelength, kwargs) ==
    LET dist_slit == KwGet(kwargs, "dist_slit", 21000)
        o1 == [o EXCEPT ![At(active_chain, 0)].tuned = wavelength]
        o2 == [o1 EXCEPT ![At(active_chain, 1)].distance_from_previous = dist_slit]
    IN  IF Contains(<<"6", "5">>, Name(At(active_chain, 0)))
        THEN [o2 EXCEPT ![At(active_chain, 1)].distance_from_previous =
                            @ - (LongPos("DEIMOS_2") - LongPos("DEIMOS_1"))]
        ELSE o2

\* align_undulator placing the aperture before it configures the source.
AlignUndulatorApertureFirst(o, active_chain, wavelength, kwargs, fault) ==
    LET done == AlignUndulator(o, active_chain, wavelength, kwargs)
    IN  IF fault = "none" THEN [err |-> "none", oe |-> done]
        ELSE [err |-> "SourceError",
              oe |-> IF fault = "tuned" THEN done
                     ELSE [done EXCEPT ![At(active_chain, 0)].tuned = o[At(active_chain, 0)].tuned]]

\* The outcome of align_undulator: active_chain[0].set_undulator(wavelength, **kwargs)
\* is its first statement that changes anything, so an exception of set_undulator
\* leaves the function before the aperture is touched; what set_undulator did to the
\* source before it failed is the engine's business.
AlignUndulatorCall(o, active_chain, wavelength, kwargs, fault) ==
    IF fault = "none"
    THEN [err |-> "none", oe |-> AlignUndulator(o, active_chain, wavelength, kwargs)]
    ELSE [err |-> "SourceError",
          oe |-> IF fault = "tuned" THEN [o EXCEPT ![At(active_chain, 0)].tuned = wavelength]
                 ELSE o]

\* align_m1 without `distance_from_previous = dist_next`: the branch correction is
\* added to whatever distance the element has.
AlignM1InPlace(o, active_chain, m1d, kwargs) ==
    LET o1 == [o EXCEPT ![At(active_chain, 2)].theta = o[At(active_chain, 3)].theta]
        o2 == [o1 EXCEPT ![At(active_chain, 2)].next = At(active_chain, 3)]
        o3 == [o2 EXCEPT ![At(active_chain, 3)].next = At(active_chain, 4)]
    IN  IF Contains(<<"1", "B">>, Name(At(active_chain, 3)))
        THEN [o3 EXCEPT ![At(active_chain, 4)].distance_from_previous =
                            @ + (m1d[2][2] - m1d[1][2])]
        ELSE o3

\* align_m1 linking the flat mirror past the curved one.
AlignM1SkipsCurved(o, active_chain, m1d, kwargs) ==
    LET dist_next == KwGet(kwargs, "dist_next", 5000)
        o1 == [o EXCEPT ![At(active_chain, 2)].theta = o[At(active_chain, 3)].theta]
        o2 == [o1 EXCEPT ![At(active_chain, 2)].next = At(active_chain, 4)]
        o3 == [o2 EXCEPT ![At(active_chain, 3)].next = At(active_chain, 4)]
        o4 == [o3 EXCEPT ![At(active_chain, 4)].distance_from_previous = dist_next]
    IN  IF Contains(<<"1", "B">>, Name(At(active_chain, 3)))
        THEN [o4 EXCEPT ![At(active_chain, 4)].distance_from_previous =
                            @ + (m1d[2][2] - m1d[1][2])]
        ELSE o4

\* align_m1 with the two branches of the table exchanged in the correction.
AlignM1SwappedBranches(o, active_chain, m1d, kwargs) ==
    LET dist_next == KwGet(kwargs, "dist_next", 5000)
        o1 == [o EXCEPT ![At(active_chain, 2)].theta = o[At(active_chain, 3)].theta]
        o2 == [o1 EXCEPT ![At(active_chain, 2)].next = At(active_chain, 3)]
        o3 == [o2 EXCEPT ![At(active_chain, 3)].next = At(active_chain, 4)]
        o4 == [o3 EXCEPT ![At(active_chain, 4)].distance_from_previous = dist_next]
    IN  IF Contains(<<"1", "B">>, Name(At(active_chain, 3)))
        THEN [o4 EXCEPT ![At(active_chain, 4)].distance_from_previous =
                            @ + (m1d[1][2] - m1d[2][2])]
        ELSE o4

\* align_m1 copying the angle the wrong way, from the flat mirror onto the curved one.
AlignM1CopiesOntoCurved(o, active_chain, m1d, kwargs) ==
    LET dist_next == KwGet(kwargs, "dist_next", 5000)
        o1 == [o EXCEPT ![At(active_chain, 3)].theta = o[At(active_chain, 2)].theta]
        o2 == [o1 EXCEPT ![At(active_chain, 2)].next = At(active_chain, 3)]
        o3 == [o2 EXCEPT ![At(active_chain, 3)].next = At(active_chain, 4)]
        o4 == [o3 EXCEPT ![At(active_chain, 4)].distance_from_previous = dist_next]
    IN  IF Contains(<<"1", "B">>, Name(At(active_chain, 3)))
        THEN [o4 EXCEPT ![At(active_chain, 4)].distance_from_previous =
                            @ + (m1d[2][2] - m1d[1][2])]
        ELSE o4

AlignM1(o, active_chain, m1d, kwargs) ==
    LET dist_next == KwGet(kwargs, "dist_next", 5000)
        o1 == [o EXCEPT ![At(active_chain, 2)].theta = o[At(active_chain, 3)].theta]
        o2 == [o1 EXCEPT ![At(active_chain, 2)].next = At(active_chain, 3)]
        o3 == [o2 EXCEPT ![At(active_chain, 3)].next = At(active_chain, 4)]
        o4 == [o3 EXCEPT ![At(active_chain, 4)].distance_from_previous = dist_next]
    IN  IF Contains(<<"1", "B">>, Name(At(active_chain, 3)))
        THEN [o4 EXCEPT ![At(active_chain, 4)].distance_from_previous =
                            @ + (m1d[2][2] - m1d[1][2])]
        ELSE o4

\* The name test without `.lower()`.
IsGratingNameCaseSensitive(name) ==
    \/ Contains(<<"r", "e", "s", "e", "a", "u">>, name)
    \/ Contains(<<"g", "r", "a", "t", "i", "n", "g">>, name)

\* "reseau" in oe.name.lower() or "grating" in oe.name.lower()
IsGratingName(name) ==
    \/ Contains(<<"r", "e", "s", "e", "a", "u">>, Lower(name))
    \/ Contains(<<"g", "r", "a", "t", "i", "n", "g">>, Lower(name))

\* The scan loop: the 0-based position of the last element it takes for a grating,
\* -1 when grating stays None.
MonoOePos(active_chain) ==
    LET hits == {i \in 1..Len(active_chain) : IsGratingName(Name(active_chain[i]))}
    IN  IF hits = {} THEN -1
        ELSE (CHOOSE i \in hits : \A j \in hits : j <= i) - 1

\* float64 division and subtraction as numpy does them: a quotient by 0.0 is inf
\* (or nan for 0.0/0.0) with a RuntimeWarning, never an exception.
Inf == 1000000000
NaN == -2000000000

FloatDiv(a, b) ==
    IF b = 0 THEN (IF a > 0 THEN Inf ELSE IF a < 0 THEN -Inf ELSE NaN) ELSE a \div b

FloatSub(a, b) ==
    IF b = NaN THEN NaN ELSE IF b = Inf THEN -Inf ELSE IF b = -Inf THEN Inf ELSE a - b

\* The two distances with their places exchanged.
MonoDistancesSwapped(GM2_trans_dist, GM3_proj_dist, deviation) ==
    [m2m3 |-> FloatDiv(GM2_trans_dist * 100000, Sin5(deviation)),
     gm2 |-> FloatSub(GM3_proj_dist, FloatDiv(GM2_trans_dist * 100000, Tan5(deviation)))]

\* gm2 = GM2_trans_dist/np.sin(deviation)
\* m2m3 = GM3_proj_dist-(GM2_trans_dist/np.tan(deviation))
MonoDistances(GM2_trans_dist, GM3_proj_dist, deviation) ==
    [gm2 |-> FloatDiv(GM2_trans_dist * 100000, Sin5(deviation)),
     m2m3 |-> FloatSub(GM3_proj_dist, FloatDiv(GM2_trans_dist * 100000, Tan5(deviation)))]

\* The mirror angle taken from the incidence angle instead of the deviation.
M2ThetaFromAlpha(gdict) == gdict.alpha \div 2

\* gdict["deviation"]/2
M2Theta(gdict) == gdict.deviation \div 2

\* The outcome of align_mono: the exception it ends with ("none" when it returns),
\* whether the solver was called, and the elements as it leaves them.
AlignMono(o, active_chain, wavelength, alignment_condition, alignment_condition_value, GM2_trans_dist, GM3_proj_dist, kwargs) ==
    LET mono_oe_pos == MonoOePos(active_chain)
    IN  IF mono_oe_pos = -1
        THEN [err |-> "ValueError", solved |-> FALSE, oe |-> o]
        ELSE
        IF SolverRaises(alignment_condition)
        THEN [err |-> "UnknownCondition", solved |-> TRUE, oe |-> o]
        ELSE
          LET grating == At(active_chain, mono_oe_pos)
              gdict == AlignGrating(alignment_condition, alignment_condition_value,
                                    wavelength, OrderAlign(grating), LineDensity(grating))
              o1 == [o EXCEPT ![grating].theta = gdict.alpha, ![grating].beta = gdict.beta]
              d == MonoDistances(GM2_trans_dist, GM3_proj_dist, gdict.deviation)
          IN  IF mono_oe_pos + 1 >= Len(active_chain)
              THEN [err |-> "IndexError", solved |-> TRUE, oe |-> o1]
              ELSE
                LET o2 == [o1 EXCEPT ![At(active_chain, mono_oe_pos + 1)].theta =
                                          M2Theta(gdict),
                                     ![At(active_chain, mono_oe_pos + 1)].distance_from_previous =
                                          d.gm2]
                IN  IF mono_oe_pos + 2 >= Len(active_chain)
                    THEN [err |-> "IndexError", solved |-> TRUE, oe |-> o2]
                    ELSE [err |-> "none", solved |-> TRUE,
                          oe |-> [o2 EXCEPT ![At(active_chain, mono_oe_pos + 2)].distance_from_previous =
                                                d.m2m3]]

-----------------------------------------------------------------------------
(* Beamline alignment procedure: align_call and set_bl.                    *)

\* align_call with its first two steps exchanged.
SwappedAlignCallSteps == <<"align_m1", "align_undulator", "align_mono">>

\* The body of align_call, in execution order.
AlignCallSteps == <<"align_undulator", "align_m1", "align_mono">>

\* set_bl clearing the impacts only after the rays are generated.
LateClearSetBlSteps == <<"align", "generate", "clear_impacts", "radiate">>

\* The body of set_bl after its wavelengths are computed, in execution order;
\* Deimos.align runs Deimos.align_steps, which is align_call.
SetBlSteps == <<"align", "clear_impacts", "generate", "radiate">>

RECURSIVE Inline(_)
Inline(steps) ==
    IF steps = <<>> THEN <<>>
    ELSE (IF Head(steps) = "align" THEN AlignCallSteps ELSE <<Head(steps)>>) \o Inline(Tail(steps))

Program == Inline(SetBlSteps)

\* The defaults of set_bl's parameters GM2_trans_dist=20e-3, GM3_proj_dist=700e-3.
DefaultGM2 == 20
DefaultGM3 == 700

NoChain == <<>>
NoKwargs == [x \in {} |-> 0]

\* A set_bl call: its arguments, and the chain that is active when it is made.
Call(chain, energy_alignment, alignment_condition, alignment_condition_value, m1d, GM2_trans_dist, GM3_proj_dist, kwargs) ==
    [chain |-> chain, energy_alignment |-> energy_alignment,
     alignment_condition |-> alignment_condition,
     alignment_condition_value |-> alignment_condition_value,
     m1_distances |-> m1d, GM2_trans_dist |-> GM2_trans_dist,
     GM3_proj_dist |-> GM3_proj_dist, kwargs |-> kwargs]

NoCall == Call(NoChain, 0, "none", 0, m1_distances, DefaultGM2, DefaultGM3, NoKwargs)

\* A branch-distance table other than the notebook's (transverse distance 40e-3).
OtherM1Distances == << <<454, 452>>, <<963, 962>> >>

\* The set_bl calls explored on each chain.
Requests(chain) ==
    { Call(chain, 400, "cff", 20, m1_distances, DefaultGM2, DefaultGM3, NoKwargs),
      Call(chain, 1500, "omega", 692, m1_distances, DefaultGM2, DefaultGM3, NoKwargs),
      Call(chain, 400, "cff", 20, OtherM1Distances, DefaultGM2, DefaultGM3,
           ("dist_slit" :> 20000) @@ ("dist_next" :> 4000)),
      Call(chain, 1500, "cff", 20, m1_distances, DefaultGM2, DefaultGM3,
           ("energy_radiate" :> 400) @@ ("dE" :> 1)),
      Call(chain, 400, "cff", 20, m1_distances, DefaultGM2, DefaultGM3,
           ("energy_radiate" :> 1500)) }

energy_radiate(r) == KwGet(r.kwargs, "energy_radiate", r.energy_alignment)
alignment_wvl(r) == Wavelength(r.energy_alignment)

\* The source tuned to the energy of the alignment, whatever energy_radiate is.
EmissionAtAlignmentEnergy(r) == Wavelength(r.energy_alignment)
emission_wvl(r) == Wavelength(energy_radiate(r))

\* np.arange(start, stop) on floats, the values held in hundredths: it has
\* ceil(stop - start) elements start, start + 1, ..., and none when stop <= start.
Arange(start, stop) ==
    [j \in 1..(IF stop > start THEN (stop - start + 99) \div 100 ELSE 0) |->
        start + 100 * (j - 1)]

\* The wavelengths set_bl generates rays at.  dE is held in percent of energy_radiate,
\* the energies of the band energy_radiate*(1-dE) .. energy_radiate*(1+dE) in
\* hundredths of an eV; the wavelength of an energy E of the band is hc/E.
GenerateWavelengths(r) ==
    LET dE == KwGet(r.kwargs, "dE", 0)
        band == Arange(energy_radiate(r) * (100 - dE), energy_radiate(r) * (100 + dE))
    IN  IF dE = 0 THEN <<emission_wvl(r)>>
        ELSE [i \in 1..Len(band) |-> (100 * hc) \div band[i]]

\* The names of chains selected as active chain, written as the notebook writes
\* its configuration lists: f'{u}_{mr}_{mn}_{ends}'.
Config(u, mr, mn, ends) == u \o <<"_">> \o mr \o <<"_">> \o mn \o <<"_">> \o ends

Configs ==
    LET U52 == <<"U", "5", "2">>
        U65 == <<"U", "6", "5">>
        SII == <<"S", "I", "I">>
        M1B == <<"M", "1", "B">>
        M1C == <<"M", "1", "C">>
        G1600 == <<"G", "1", "6", "0", "0">>
        G2400 == <<"G", "2", "4", "0", "0">>
        mono == <<"m", "o", "n", "o">>
        WLT_A == <<"W", "L", "T", "_", "A">>
        WLT_B == <<"W", "L", "T", "_", "B">>
    IN  { Config(U52, M1B, G1600, mono), Config(U65, M1B, G2400, WLT_A),
          Config(SII, M1C, G2400, WLT_B), Config(U65, M1C, G1600, mono) }

\* Hand-made paths, as a user adds them to Deimos.chains: one with the grating
\* left out, one whose grating is the element named "Reseau_VLS".
BarePath == <<"b", "a", "r", "e">>
VlsPath == <<"v", "l", "s">>

ExtraChains ==
    (BarePath :> <<"undulator_U52", "pupil", "m1a", "m1b", "m2", "m3", "foc_hor",
                   "mono_exit_slit">>)
    @@ (VlsPath :> <<"undulator_U52", "pupil", "m1a", "m1c", "reseau_vls", "m2", "m3",
                     "foc_hor", "mono_exit_slit">>)

Selectable == Configs \cup DOMAIN ExtraChains

active_chain == chains[active]

Running(step) == pc > 0 /\ Program[pc] = step
Advance == IF pc < Len(Program) THEN pc + 1 ELSE 0

\* align_call and set_bl with the exception of a step caught and ignored.
Swallow(e) == Advance

\* Neither align_call nor set_bl has a try statement: an exception raised by a step
\* leaves both, and nothing that follows the step runs.
Propagate(e) == IF e = "none" THEN Advance ELSE 0

-----------------------------------------------------------------------------
(* Calculation of the beamline energy resolution: beamline_energy_resolution. *)

\* Number of sweeps explored.
MaxSweeps == 2

\* align_call as one function: the outcome of its last step, align_mono.
AlignCall(o, chain, alignment_wvl_, emission_wvl_, alignment_condition, alignment_condition_value, m1d, GM2_trans_dist, GM3_proj_dist, kwargs) ==
    LET o1 == AlignUndulator(o, chain, emission_wvl_, kwargs)
        o2 == AlignM1(o1, chain, m1d, kwargs)
    IN  AlignMono(o2, chain, alignment_wvl_, alignment_condition,
                  alignment_condition_value, GM2_trans_dist, GM3_proj_dist, kwargs)

\* The figure Deimos.get_resolution returns stands for the call it was computed by.
NoRes == [chain |-> <<>>, wavelength |-> 0, alignment_condition_value |-> 0]

\* The ray tracing and the measurement that follow the alignment in get_resolution;
\* `fails` is a failure of the ray tracing.
Measure(out, chain, wavelength, alignment_condition_value, fails) ==
    IF out.err # "none" THEN [err |-> out.err, oe |-> out.oe, res |-> NoRes]
    ELSE IF fails THEN [err |-> "DelegateError", oe |-> out.oe, res |-> NoRes]
    ELSE [err |-> "none", oe |-> out.oe,
          res |-> [chain |-> chain, wavelength |-> wavelength,
                   alignment_condition_value |-> alignment_condition_value]]

\* Deimos.get_resolution(wavelength=..., alignment_condition=..., ...): the engine
\* aligns the active chain at the wavelength with the keyword arguments it is given,
\* traces rays and measures the resolution.
GetResolution(o, chain, wavelength, alignment_condition, alignment_condition_value, m1d, GM2_trans_dist, GM3_proj_dist, fails) ==
    Measure(AlignCall(o, chain, wavelength, wavelength, alignment_condition,
                      alignment_condition_value, m1d, GM2_trans_dist, GM3_proj_dist,
                      NoKwargs),
            chain, wavelength, alignment_condition_value, fails)

\* The characters of str(n) for a natural number n.
DigitChar(d) == <<"0", "1", "2", "3", "4", "5", "6", "7", "8", "9">>[d + 1]

RECURSIVE Digits(_)
Digits(n) == IF n < 10 THEN <<DigitChar(n)>> ELSE Digits(n \div 10) \o <<DigitChar(n % 10)>>

\* The condition value as the float the notebook passes, in hundredths and rounded as
\* the format specification .2f rounds: a "cff" value is a ratio (the model holds it
\* in hundredths), an "omega" value is an angle in radians (the model holds it in
\* millidegrees, one millidegree being 17.453 microradians).
Hundredths(alignment_condition, algn) ==
    IF alignment_condition = "omega" THEN (algn * 17453 + 5000000) \div 10000000 ELSE algn

\* f'{algn:.2f}'
Format2f(alignment_condition, algn) ==
    LET h == Hundredths(alignment_condition, algn)
    IN  Digits(h \div 100) \o <<".", DigitChar((h % 100) \div 10), DigitChar(h % 10)>>

Chars(alignment_condition) ==
    CASE alignment_condition = "cff" -> <<"c", "f", "f">>
      [] alignment_condition = "omega" -> <<"o", "m", "e", "g", "a">>

\* f'{config}_{alignment_condition}_{algn:.2f}'
ColumnKey(config, alignment_condition, algn) ==
    config \o <<"_">> \o Chars(alignment_condition) \o <<"_">>
           \o Format2f(alignment_condition, algn)

EnergyKey == <<"e", "n", "e", "r", "g", "y">>

\* The result put at the head of the list.
CurvesPrepend(curves, res) == <<res>> \o curves

\* curves.append(res)
CurvesAppend(curves, res) == Append(curves, res)

\* The exception caught inside the energy loop, which goes on with the next energy.
ContinueAfter(s, e) == [s EXCEPT !.i = @ + 1]

\* beamline_energy_resolution has no try statement: an exception ends the function,
\* and the statement that called it, without a return value.
Raise(s, e) == [s EXCEPT !.pc = "failed", !.err = e]

\* No sweep was called yet; `resolution` is not bound.
NoFrame ==
    [pc |-> "idle", n |-> 0, energy |-> <<>>, active_chains |-> <<>>,
     alignment_condition |-> "none", alignment_condition_values |-> <<>>,
     total_steps |-> 0, resolution |-> EmptyDict, algn |-> 1, k |-> 1, i |-> 1,
     curves |-> <<>>, err |-> "none"]

Unbound == [bound |-> FALSE, table |-> EmptyDict]

\* The beam-statistics cell has not run: configs is empty and energy_range is not bound.
NoCell ==
    [pc |-> "idle", configs |-> <<>>, c |-> 1, i |-> 1, energy_range |-> <<>>,
     config_stats |-> <<>>, config_stats_2 |-> <<>>, events |-> <<>>, saved |-> <<>>,
     err |-> "none"]

\* The arguments of a sweep.
Sweep(energy, active_chains, alignment_condition, alignment_condition_values) ==
    [energy |-> energy, active_chains |-> active_chains,
     alignment_condition |-> alignment_condition,
     alignment_condition_values |-> alignment_condition_values]

\* Ten energies of np.linspace(250, 5000, 951), and the energies of a short scan.
Energy10 == <<250, 400, 500, 750, 1000, 1500, 2000, 2500, 3000, 5000>>
Energy3 == <<350, 1000, 1500>>

U52_M1B_G1600_mono ==
    <<"U", "5", "2", "_", "M", "1", "B", "_", "G", "1", "6", "0", "0", "_", "m", "o", "n", "o">>
U52_M1C_G1600_mono ==
    <<"U", "5", "2", "_", "M", "1", "C", "_", "G", "1", "6", "0", "0", "_", "m", "o", "n", "o">>
U52_M1C_G2400_mono ==
    <<"U", "5", "2", "_", "M", "1", "C", "_", "G", "2", "4", "0", "0", "_", "m", "o", "n", "o">>

\* The sweeps explored: a short scan, the notebook's two sweeps (on ten energies and
\* two "cff" values), a sweep over two fixed deviations, and a sweep whose second
\* path has no grating.
Sweeps ==
    { Sweep(Energy3, <<U52_M1B_G1600_mono>>, "cff", <<10, 50>>),
      Sweep(Energy10, <<U52_M1B_G1600_mono, U52_M1C_G1600_mono>>, "cff", <<10, 50>>),
      Sweep(Energy10, <<U52_M1C_G2400_mono>>, "omega", <<692>>),
      Sweep(Energy10, <<U52_M1C_G2400_mono>>, "omega", <<692, 500>>),
      Sweep(Energy10, <<U52_M1B_G1600_mono, BarePath>>, "cff", <<10>>) }

-----------------------------------------------------------------------------
(* Actions.                                                                *)

\* One iteration of the chain construction loop.
Build ==
    /\ build # <<>>
    /\ chains' = BuildStep(chains, build)
    /\ build' = NextIndex(build)
    /\ UNCHANGED <<oe, active, pc, req, err, trace, oe0, last, rays, impacts, calls>>
    /\ UNCHANGED <<sw, resolution, log, st>>

\* Deimos.active_chain = config.  The setter belongs to the optics engine; it is
\* taken as the specification describes it: it selects the chain and changes no
\* field of any element.
SetActiveChain(config) ==
    /\ build = <<>>
    /\ pc = 0
    /\ config \in DOMAIN chains
    /\ active' = config
    /\ UNCHANGED <<oe, chains, build, pc, req, err, trace, oe0, last, rays, impacts, calls>>
    /\ UNCHANGED <<sw, resolution, log, st>>

\* set_bl is entered.
SetBl(r) ==
    /\ build = <<>>
    /\ pc = 0
    /\ active # NoChain
    /\ calls < MaxCalls
    /\ r.chain = active
    /\ req' = r
    /\ last' = IF calls > 0 /\ err = "none" THEN req ELSE NoCall
    /\ oe0' = oe
    /\ err' = "none"
    /\ trace' = <<>>
    /\ calls' = calls + 1
    /\ pc' = 1
    /\ UNCHANGED <<oe, chains, build, active, rays, impacts>>
    /\ UNCHANGED <<sw, resolution, log, st>>

\* align_undulator; `fault` is the way its set_undulator call fails, "none" when it
\* returns.  An exception leaves align_call, Deimos.align and set_bl.
StepAlignUndulator(fault) ==
    /\ Running("align_undulator")
    /\ \E out \in {AlignUndulatorCall(oe, active_chain, emission_wvl(req), req.kwargs, fault)} :
           /\ oe' = out.oe
           /\ err' = out.err
           /\ pc' = Propagate(out.err)
    /\ trace' = Append(trace, "align_undulator")
    /\ UNCHANGED <<chains, build, active, req, oe0, last, rays, impacts, calls>>
    /\ UNCHANGED <<sw, resolution, log, st>>

StepAlignM1 ==
    /\ Running("align_m1")
    /\ oe' = AlignM1(oe, active_chain, req.m1_distances, req.kwargs)
    /\ trace' = Append(trace, "align_m1")
    /\ pc' = Advance
    /\ UNCHANGED <<chains, build, active, req, err, oe0, last, rays, impacts, calls>>
    /\ UNCHANGED <<sw, resolution, log, st>>

\* align_mono; an exception leaves align_call, Deimos.align and set_bl.
StepAlignMono ==
    /\ Running("align_mono")
    /\ LET out == AlignMono(oe, active_chain, alignment_wvl(req), req.alignment_condition,
                            req.alignment_condition_value, req.GM2_trans_dist,
                            req.GM3_proj_dist, req.kwargs)
       IN  /\ oe' = out.oe
           /\ err' = out.err
           /\ trace' = trace \o <<"align_mono">>
                          \o (IF out.solved THEN <<"align_grating">> ELSE <<>>)
           /\ pc' = Propagate(out.err)
    /\ UNCHANGED <<chains, build, active, req, oe0, last, rays, impacts, calls>>
    /\ UNCHANGED <<sw, resolution, log, st>>

\* Deimos.clear_impacts(clear_source=True)
StepClearImpacts ==
    /\ Running("clear_impacts")
    /\ impacts' = {}
    /\ rays' = <<>>
    /\ trace' = Append(trace, "clear_impacts")
    /\ pc' = Advance
    /\ UNCHANGED <<oe, chains, build, active, req, err, oe0, last, calls>>
    /\ UNCHANGED <<sw, resolution, log, st>>

\* Deimos.generate(...), once or once per energy of the band
StepGenerate ==
    /\ Running("generate")
    /\ rays' = rays \o [i \in 1..Len(GenerateWavelengths(req)) |->
                           [call |-> calls, wvl |-> GenerateWavelengths(req)[i]]]
    /\ trace' = Append(trace, "generate")
    /\ pc' = Advance
    /\ UNCHANGED <<oe, chains, build, active, req, err, oe0, last, impacts, calls>>
    /\ UNCHANGED <<sw, resolution, log, st>>

\* Deimos.radiate(): the rays at the source are propagated and recorded.
StepRadiate ==
    /\ Running("radiate")
    /\ impacts' = impacts \cup {rays[i].call : i \in 1..Len(rays)}
    /\ trace' = Append(trace, "radiate")
    /\ pc' = Advance
    /\ UNCHANGED <<oe, chains, build, active, req, err, oe0, last, rays, calls>>
    /\ UNCHANGED <<sw, resolution, log, st>>

Steps ==
    \/ StepAlignUndulator("none")
    \/ StepAlignM1
    \/ StepAlignMono
    \/ StepClearImpacts
    \/ StepGenerate
    \/ StepRadiate

Drive ==
    \/ \E config \in Selectable : SetActiveChain(config)
    \/ \E r \in Requests(active) : SetBl(r)
    \/ Steps

\* The elements are declared and their static parameters assigned; the construction
\* loop, which only reads the elements' names, has yet to run.
Init ==
    /\ oe = StaticOE
    /\ chains = EmptyDict
    /\ build = <<1, 1, 1, 1>>
    /\ active = NoChain
    /\ pc = 0
    /\ req = NoCall
    /\ err = "none"
    /\ trace = <<>>
    /\ oe0 = StaticOE
    /\ last = NoCall
    /\ rays = <<>>
    /\ impacts = {}
    /\ calls = 0
    /\ sw = NoFrame
    /\ resolution = Unbound
    /\ log = <<>>
    /\ st = NoCell

Next == Build \/ Drive

\* The notebook: the chains are built, then chains are selected and aligned.
Spec == Init /\ [][Next]_vars

\* The alignment functions on every path of Deimos.chains, the hand-made ones included.
InitPaths ==
    /\ oe = StaticOE
    /\ chains = BuiltChains @@ ExtraChains
    /\ build = <<>>
    /\ active = NoChain
    /\ pc = 0
    /\ req = NoCall
    /\ err = "none"
    /\ trace = <<>>
    /\ oe0 = StaticOE
    /\ last = NoCall
    /\ rays = <<>>
    /\ impacts = {}
    /\ calls = 0
    /\ sw = NoFrame
    /\ resolution = Unbound
    /\ log = <<>>
    /\ st = NoCell

SpecPaths == InitPaths /\ [][Drive]_vars

\* The ways set_undulator can fail: before or after it has tuned the source.
Faults == {"untouched", "tuned"}

DriveFault ==
    \/ \E config \in Configs : SetActiveChain(config)
    \/ \E r \in Requests(active) : SetBl(r)
    \/ \E fault \in Faults \cup {"none"} : StepAlignUndulator(fault)
    \/ StepAlignM1
    \/ StepAlignMono
    \/ StepClearImpacts
    \/ StepGenerate
    \/ StepRadiate

\* set_bl on the built chains with a source whose configuration can fail.
SpecFault == InitPaths /\ [][DriveFault]_vars

\* Calls at the edge of set_bl's domain: a fixed deviation of zero, a condition that
\* is neither "omega" nor "cff", a regular call, and calls with a band of one percent
\* and of minus one percent around the energy.
EdgeRequests(chain) ==
    { Call(chain, 400, "omega", 0, m1_distances, DefaultGM2, DefaultGM3, NoKwargs),
      Call(chain, 400, "energy", 20, m1_distances, DefaultGM2, DefaultGM3, NoKwargs),
      Call(chain, 400, "cff", 20, m1_distances, DefaultGM2, DefaultGM3, NoKwargs),
      Call(chain, 400, "cff", 20, m1_distances, DefaultGM2, DefaultGM3, ("dE" :> 1)),
      Call(chain, 400, "cff", 20, m1_distances, DefaultGM2, DefaultGM3, ("dE" :> -1)) }

DriveEdge ==
    \/ \E config \in Configs : SetActiveChain(config)
    \/ \E r \in EdgeRequests(active) : SetBl(r)
    \/ Steps

SpecEdge == InitPaths /\ [][DriveEdge]_vars

\* resolution = beamline_energy_resolution(energy, active_chains, ...) is entered:
\* total_steps = len(energy); resolution = {'energy': energy}
SweepCall(a) ==
    /\ build = <<>>
    /\ pc = 0
    /\ sw.pc \in {"idle", "done", "failed"}
    /\ sw.n < MaxSweeps
    /\ sw' = [pc |-> "for_algn", n |-> sw.n + 1, energy |-> a.energy,
              active_chains |-> a.active_chains,
              alignment_condition |-> a.alignment_condition,
              alignment_condition_values |-> a.alignment_condition_values,
              total_steps |-> Len(a.energy),
              resolution |-> (EnergyKey :> a.energy),
              algn |-> 1, k |-> 1, i |-> 1, curves |-> <<>>, err |-> "none"]
    /\ log' = <<>>
    /\ UNCHANGED <<oe, chains, build, active, pc, req, err, trace, oe0, last, rays, impacts, calls>>
    /\ UNCHANGED resolution
    /\ UNCHANGED st

\* for algn in alignment_condition_values:
ForAlgn ==
    /\ sw.pc = "for_algn"
    /\ sw' = IF sw.algn > Len(sw.alignment_condition_values)
             THEN [sw EXCEPT !.pc = "return"]
             ELSE [sw EXCEPT !.pc = "for_config", !.k = 1]
    /\ UNCHANGED <<oe, chains, build, active, pc, req, err, trace, oe0, last, rays, impacts, calls>>
    /\ UNCHANGED <<resolution, log>>
    /\ UNCHANGED st

\* The loop over the configurations selecting the first configuration every time.
ForConfigSelectsFirst ==
    /\ sw.pc = "for_config"
    /\ IF sw.k > Len(sw.active_chains)
       THEN /\ sw' = [sw EXCEPT !.pc = "for_algn", !.algn = @ + 1]
            /\ UNCHANGED active
       ELSE IF sw.active_chains[sw.k] \notin DOMAIN chains
       THEN /\ sw' = Raise(sw, "KeyError")
            /\ UNCHANGED active
       ELSE /\ active' = sw.active_chains[1]
            /\ sw' = [sw EXCEPT !.pc = "for_energy", !.i = 1, !.curves = <<>>]
    /\ UNCHANGED <<oe, chains, build, pc, req, err, trace, oe0, last, rays, impacts, calls>>
    /\ UNCHANGED <<resolution, log>>
    /\ UNCHANGED st

\* for k, config in enumerate(active_chains): Deimos.active_chain = config; curves = []
ForConfig ==
    /\ sw.pc = "for_config"
    /\ IF sw.k > Len(sw.active_chains)
       THEN /\ sw' = [sw EXCEPT !.pc = "for_algn", !.algn = @ + 1]
            /\ UNCHANGED active
       ELSE IF sw.active_chains[sw.k] \notin DOMAIN chains
       THEN /\ sw' = Raise(sw, "KeyError")
            /\ UNCHANGED active
       ELSE /\ active' = sw.active_chains[sw.k]
            /\ sw' = [sw EXCEPT !.pc = "for_energy", !.i = 1, !.curves = <<>>]
    /\ UNCHANGED <<oe, chains, build, pc, req, err, trace, oe0, last, rays, impacts, calls>>
    /\ UNCHANGED <<resolution, log>>
    /\ UNCHANGED st

\* for i, E in enumerate(energy): the progress test, get_resolution and
\* curves.append(res); at the end of the array, resolution[key] = curves.
ForEnergy(fails) ==
    /\ sw.pc = "for_energy"
    /\ IF sw.i > Len(sw.energy)
       THEN /\ sw' = [sw EXCEPT !.pc = "for_config", !.k = @ + 1,
                                !.resolution =
                                    DictSet(@, ColumnKey(sw.active_chains[sw.k],
                                                         sw.alignment_condition,
                                                         sw.alignment_condition_values[sw.algn]),
                                            sw.curves)]
            /\ UNCHANGED <<oe, log>>
       ELSE IF sw.total_steps \div 10 = 0
       THEN /\ sw' = Raise(sw, "ZeroDivisionError")
            /\ UNCHANGED <<oe, log>>
       ELSE \E out \in {GetResolution(oe, active_chain, Wavelength(sw.energy[sw.i]),
                                       sw.alignment_condition,
                                       sw.alignment_condition_values[sw.algn],
                                       m1_distances, DefaultGM2, DefaultGM3, fails)} :
                /\ oe' = out.oe
                /\ log' = Append(log, [algn |-> sw.alignment_condition_values[sw.algn],
                                       config |-> sw.active_chains[sw.k],
                                       active |-> active,
                                       E |-> sw.energy[sw.i],
                                       ok |-> out.err = "none", res |-> out.res])
                /\ sw' = IF out.err # "none" THEN Raise(sw, out.err)
                         ELSE [sw EXCEPT !.i = @ + 1,
                                         !.curves = CurvesAppend(@, out.res)]
    /\ UNCHANGED <<chains, build, active, pc, req, err, trace, oe0, last, rays, impacts, calls>>
    /\ UNCHANGED resolution
    /\ UNCHANGED st

\* return resolution, and the assignment of the returned table by the caller
Return ==
    /\ sw.pc = "return"
    /\ resolution' = [bound |-> TRUE, table |-> sw.resolution]
    /\ sw' = [sw EXCEPT !.pc = "done"]
    /\ UNCHANGED <<oe, chains, build, active, pc, req, err, trace, oe0, last, rays, impacts, calls>>
    /\ UNCHANGED log
    /\ UNCHANGED st

NextSweep ==
    \/ \E a \in Sweeps : SweepCall(a)
    \/ ForAlgn
    \/ ForConfig
    \/ \E fails \in BOOLEAN : ForEnergy(fails)
    \/ Return

\* The resolution sweeps, on the chains as built (and the hand-made ones).
SpecSweep == InitPaths /\ [][NextSweep]_vars

-----------------------------------------------------------------------------
(* Calculations: the cell that scans every configuration over its energy   *)
(* range and extracts the beam statistics at the two endstations.          *)

\* Points of energy = np.linspace(350, 5000, 931), a grid of 5 eV: the ends of the
\* three energy ranges and points on either side of them.
StatsEnergy == <<400, 500, 1000, 1500, 2000, 2500>>

und == << <<"U", "5", "2">>, <<"S", "I", "I">> >>
mirror == << <<"M", "1", "B">>, <<"M", "1", "C">> >>
mono == << <<"G", "1", "6", "0", "0">>, <<"G", "2", "4", "0", "0">> >>
endstation == << <<"W", "L", "T", "_", "A">>, <<"W", "L", "T", "_", "B">> >>

\* The nested loops appending every combination.
SkipsNone(mr, mn) == FALSE

\* if '1B' in mr and '2400' in mn: pass
Skips(mr, mn) == Contains(<<"1", "B">>, mr) /\ Contains(<<"2", "4", "0", "0">>, mn)

\* The iterations of the four nested loops in execution order, the innermost loop
\* running fastest: iteration n has the loop variables <<u, mr, mn, ends>>.
Iteration(n) ==
    <<und[((n - 1) \div (Len(mirror) * Len(mono) * Len(endstation))) + 1],
      mirror[(((n - 1) \div (Len(mono) * Len(endstation))) % Len(mirror)) + 1],
      mono[(((n - 1) \div Len(endstation)) % Len(mono)) + 1],
      endstation[((n - 1) % Len(endstation)) + 1]>>

Appends(it) == ~Skips(it[2], it[3])

\* configs after the loops: configs.append(f'{u}_{mr}_{mn}_{ends}') in every
\* iteration that takes the else branch.
configs ==
    LET all == [n \in 1..(Len(und) * Len(mirror) * Len(mono) * Len(endstation)) |->
                   Iteration(n)]
        kept == SelectSeq(all, Appends)
    IN  [n \in DOMAIN kept |-> Config(kept[n][1], kept[n][2], kept[n][3], kept[n][4])]

\* The ranges with their upper ends included.
EnergyRangeInclusive(config, energy, energy_range) ==
    IF Contains(<<"M", "1", "B">>, config)
    THEN [i \in DOMAIN energy |-> energy[i] <= 1500]
    ELSE IF Contains(<<"G", "1", "6", "0", "0">>, config)
    THEN [i \in DOMAIN energy |-> energy[i] > 500 /\ energy[i] <= 2000]
    ELSE IF Contains(<<"G", "2", "4", "0", "0">>, config)
    THEN [i \in DOMAIN energy |-> energy[i] > 1000 /\ energy[i] <= 2500]
    ELSE energy_range

\* if 'M1B' in config: energy_range = energy < 1500
\* elif 'G1600' in config: energy_range = (energy > 500) & (energy < 2000)
\* elif 'G2400' in config: energy_range = (energy > 1000) & (energy < 2500)
\* There is no else: a configuration that passes none of the tests leaves
\* energy_range as the previous configuration set it.
EnergyRange(config, energy, energy_range) ==
    IF Contains(<<"M", "1", "B">>, config)
    THEN [i \in DOMAIN energy |-> energy[i] < 1500]
    ELSE IF Contains(<<"G", "1", "6", "0", "0">>, config)
    THEN [i \in DOMAIN energy |-> energy[i] > 500 /\ energy[i] < 2000]
    ELSE IF Contains(<<"G", "2", "4", "0", "0">>, config)
    THEN [i \in DOMAIN energy |-> energy[i] > 1000 /\ energy[i] < 2500]
    ELSE energy_range

\* alignment = "cff" if 'G1600' in Deimos.active_chain_name else "omega"
Alignment(active_chain_name) ==
    IF Contains(<<"G", "1", "6", "0", "0">>, active_chain_name) THEN "cff" ELSE "omega"

\* alignment_value = 0.2 if alignment == "cff" else 0.692 * degree
AlignmentValue(alignment) == IF alignment = "cff" THEN 20 ELSE 692

\* nrays = 20000
nrays == 20000

\* set_bl(energy[i], alignment_condition=alignment,
\*        alignment_condition_value=alignment_value, verbose=verbose, rays=nrays,
\*        center_undulator=0)
StatsCall(active_chain_name, E) ==
    Call(active_chain_name, E, Alignment(active_chain_name),
         AlignmentValue(Alignment(active_chain_name)), m1_distances, DefaultGM2,
         DefaultGM3, ("rays" :> nrays) @@ ("center_undulator" :> 0))

\* bm.initialise_beam_stats_dict(len(energy), config): one cell per energy, holding
\* no measurement yet.
InitialStats(energy) == [i \in DOMAIN energy |-> 0]

\* The cell is run: the nested loops fill configs.
StatsCell ==
    /\ build = <<>>
    /\ pc = 0
    /\ st.pc = "idle"
    /\ st' = [st EXCEPT !.pc = "for_config", !.configs = configs]
    /\ UNCHANGED <<oe, chains, build, active, pc, req, err, trace, oe0, last, rays, impacts, calls>>
    /\ UNCHANGED <<sw, resolution, log>>

\* for config in configs: Deimos.active_chain = config; the energy range of the
\* configuration; the two statistics dictionaries.
ForStatsConfig ==
    /\ st.pc = "for_config"
    /\ IF st.c > Len(st.configs)
       THEN /\ st' = [st EXCEPT !.pc = "done"]
            /\ UNCHANGED active
       ELSE IF st.configs[st.c] \notin DOMAIN chains
       THEN /\ st' = [st EXCEPT !.pc = "failed", !.err = "KeyError"]
            /\ UNCHANGED active
       ELSE /\ active' = st.configs[st.c]
            /\ st' = [st EXCEPT !.pc = "for_energy", !.i = 1,
                                !.energy_range =
                                    EnergyRange(st.configs[st.c], StatsEnergy, @),
                                !.config_stats = InitialStats(StatsEnergy),
                                !.config_stats_2 = InitialStats(StatsEnergy)]
    /\ UNCHANGED <<oe, chains, build, pc, req, err, trace, oe0, last, rays, impacts, calls>>
    /\ UNCHANGED <<sw, resolution, log>>

\* for i, in_range in enumerate(energy_range): if in_range:
ForStatsEnergy ==
    /\ st.pc = "for_energy"
    /\ st' = IF st.energy_range = <<>>
             THEN [st EXCEPT !.pc = "failed", !.err = "NameError"]
             ELSE IF st.i > Len(st.energy_range) THEN [st EXCEPT !.pc = "save"]
             ELSE IF st.energy_range[st.i] THEN [st EXCEPT !.pc = "set_bl"]
             ELSE [st EXCEPT !.i = @ + 1]
    /\ UNCHANGED <<oe, chains, build, active, pc, req, err, trace, oe0, last, rays, impacts, calls>>
    /\ UNCHANGED <<sw, resolution, log>>

\* set_bl(energy[i], ...) as one step: the alignment, then clear_impacts, generate
\* and radiate; an exception of the alignment ends the cell.
StatsSetBl ==
    /\ st.pc = "set_bl"
    /\ \E r \in {StatsCall(active, StatsEnergy[st.i])} :
       \E out \in {AlignCall(oe, active_chain, alignment_wvl(r), emission_wvl(r),
                             r.alignment_condition, r.alignment_condition_value,
                             r.m1_distances, r.GM2_trans_dist, r.GM3_proj_dist,
                             r.kwargs)} :
           /\ oe' = out.oe
           /\ calls' = calls + 1
           /\ IF out.err = "none"
              THEN /\ rays' = [j \in 1..Len(GenerateWavelengths(r)) |->
                                  [call |-> calls + 1, wvl |-> GenerateWavelengths(r)[j]]]
                   /\ impacts' = {calls + 1}
                   /\ st' = [st EXCEPT !.pc = "stats",
                                       !.events = Append(@, [kind |-> "set_bl",
                                                             config |-> st.configs[st.c],
                                                             active |-> active,
                                                             i |-> st.i, call |-> r])]
              ELSE /\ UNCHANGED <<rays, impacts>>
                   /\ st' = [st EXCEPT !.pc = "failed", !.err = out.err]
    /\ UNCHANGED <<chains, build, active, pc, req, err, trace, oe0, last>>
    /\ UNCHANGED <<sw, resolution, log>>

\* for oe_element, stats_dict in zip([oe_1, oe_2], stats_dicts): the statistics of
\* the impacts recorded on cromag and on mk2t are written to cell i of the
\* configuration's two dictionaries.  A cell holds the set_bl call it was measured on.
StatsWrite ==
    /\ st.pc = "stats"
    /\ \E measured \in impacts :
           st' = [st EXCEPT !.pc = "for_energy", !.i = @ + 1,
                            !.config_stats[st.i] = measured,
                            !.config_stats_2[st.i] = measured,
                            !.events = Append(@, [kind |-> "stats",
                                                  config |-> st.configs[st.c],
                                                  active |-> active,
                                                  i |-> st.i, call |-> NoCall])]
    /\ UNCHANGED <<oe, chains, build, active, pc, req, err, trace, oe0, last, rays, impacts, calls>>
    /\ UNCHANGED <<sw, resolution, log>>

\* bm.save_beam_stats_to_csv(config_stats, ...) and (config_stats_2, ...): the two
\* files of the configuration, named after the active chain and the endstation.
StatsSave ==
    /\ st.pc = "save"
    /\ st' = [st EXCEPT !.pc = "for_config", !.c = @ + 1,
                        !.saved = @ \o <<[chain |-> active, oe |-> "cromag",
                                          stats |-> st.config_stats],
                                         [chain |-> active, oe |-> "mk2t",
                                          stats |-> st.config_stats_2]>>]
    /\ UNCHANGED <<oe, chains, build, active, pc, req, err, trace, oe0, last, rays, impacts, calls>>
    /\ UNCHANGED <<sw, resolution, log>>

NextStats ==
    \/ StatsCell
    \/ ForStatsConfig
    \/ ForStatsEnergy
    \/ StatsSetBl
    \/ StatsWrite
    \/ StatsSave

\* The beam-statistics sweep, on the chains as built.
SpecStats == InitPaths /\ [][NextStats]_vars

-----------------------------------------------------------------------------
(* Properties.                                                             *)

Range(s) == {s[i] : i \in 1..Len(s)}
IsPrefix(s, t) == Len(s) <= Len(t) /\ s = SubSeq(t, 1, Len(s))

IsAlignStep(e) == e \in {"align_undulator", "align_m1", "align_mono"}
IsSetBlEvent(e) == e # "align_grating"

\* The path the running (or last) set_bl call works on.
path == chains[req.chain]

\* The alignment of the running (or last) set_bl call has returned without error.
Aligned == "align_mono" \in Range(trace) /\ err = "none"

\* A name contains a word, whatever the case of either.
Mentions(word, name) == Contains(Lower(word), Lower(name))

NamesAGrating(e) ==
    \/ Mentions(<<"g", "r", "a", "t", "i", "n", "g">>, Name(e))
    \/ Mentions(<<"r", "e", "s", "e", "a", "u">>, Name(e))

\* C1: every align_call runs align_undulator, then align_m1, then align_mono: the
\* alignment steps a set_bl call has executed are always an initial part of that
\* order, and nothing of set_bl that follows the alignment runs before all three.
C1_AlignCallOrder ==
    LET steps == SelectSeq(trace, IsAlignStep)
    IN  /\ IsPrefix(steps, <<"align_undulator", "align_m1", "align_mono">>)
        /\ "clear_impacts" \in Range(trace) => Len(steps) = 3

C1_Witness ==
    /\ pc > 0
    /\ SelectSeq(trace, IsAlignStep) = <<"align_undulator", "align_m1", "align_mono">>

\* C2: in every set_bl call the alignment completes, then impacts are cleared, then
\* rays are generated, then radiate runs; and once the call has generated rays, no
\* impact and no source ray of an earlier call is left.
C2_SetBlOrder ==
    /\ IsPrefix(SelectSeq(trace, IsSetBlEvent),
                <<"align_undulator", "align_m1", "align_mono",
                  "clear_impacts", "generate", "radiate">>)
    /\ "generate" \in Range(trace) =>
          /\ impacts \subseteq {calls}
          /\ \A i \in 1..Len(rays) : rays[i].call = calls

C2_Witness ==
    /\ calls = 2
    /\ Running("radiate")
    /\ impacts = {}
    /\ rays # <<>>

\* C3: the step align_mono ends with ValueError exactly when no element of the chain
\* it is given is named as a grating (case-insensitively), and then it has neither
\* called the solver nor changed any element.
C3_NoGratingError ==
    [][Running("align_mono") =>
          /\ (err' = "ValueError") <=> ~ \E i \in 1..Len(path) :
                                            NamesAGrating(path[i])
          /\ err' = "ValueError" => oe' = oe /\ "align_grating" \notin Range(trace')]_vars

C3_Witness ==
    /\ err = "ValueError"
    /\ req.chain = BarePath
    /\ trace = <<"align_undulator", "align_m1", "align_mono">>

\* C4 (as claimed): a set_bl call that ends with the no-grating error leaves every
\* angle, distance and next link as it was when the call was made.
C4_NoMutationOnError == err = "ValueError" => oe = oe0

\* The elements align_mono's scan takes for a grating.
ScannedAsGrating == {e \in Elements : IsGratingName(Name(e))}

\* C5: every chain stored by the construction loop holds exactly one element that
\* align_mono's scan takes for a grating, and no alignment of a built chain ends
\* with the no-grating error.
C5_OneGratingPerChain ==
    /\ \A n \in DOMAIN chains :
          Cardinality({i \in 1..Len(chains[n]) : chains[n][i] \in ScannedAsGrating}) = 1
    /\ err # "ValueError"

C5_Witness ==
    /\ build = <<>>
    /\ "align_grating" \in Range(trace)

\* C6: a set_bl call with the chain and the arguments of the call before it leaves,
\* once aligned, every element as that call left it.
C6_Idempotent == (Aligned /\ last = req) => oe = oe0

C6_Witness ==
    /\ Aligned
    /\ last = req
    /\ path[1] = "undulator_U65"
    /\ path[4] = "m1b"

\* The elements after the alignment of call r on a beamline that was never aligned.
FirstAlignment(r) ==
    AlignMono(AlignM1(AlignUndulator(StaticOE, chains[r.chain], emission_wvl(r), r.kwargs),
                      chains[r.chain], r.m1_distances, r.kwargs),
              chains[r.chain], alignment_wvl(r), r.alignment_condition,
              r.alignment_condition_value, r.GM2_trans_dist, r.GM3_proj_dist, r.kwargs).oe

\* C7: once aligned, the values alignment sets on the active path (aperture distance,
\* flat-mirror theta and next, curved-mirror next, grating distance, M2 theta and
\* distance, M3 distance) are those a first alignment of the same chain with the
\* same arguments gives, whatever was selected and aligned before.
C7_NoStaleValues ==
    Aligned =>
        LET c == path
            f == FirstAlignment(req)
        IN  /\ oe[c[2]].distance_from_previous = f[c[2]].distance_from_previous
            /\ oe[c[3]].theta = f[c[3]].theta
            /\ oe[c[3]].next = f[c[3]].next
            /\ oe[c[4]].next = f[c[4]].next
            /\ oe[c[5]].distance_from_previous = f[c[5]].distance_from_previous
            /\ oe[c[6]].theta = f[c[6]].theta
            /\ oe[c[6]].distance_from_previous = f[c[6]].distance_from_previous
            /\ oe[c[7]].distance_from_previous = f[c[7]].distance_from_previous

C7_Witness ==
    /\ Aligned
    /\ last.chain # NoChain
    /\ chains[last.chain][1] = "undulator_U65"
    /\ chains[last.chain][4] = "m1b"
    /\ path[1] # "undulator_U65"
    /\ path[4] = "m1c"
    /\ path[5] = chains[last.chain][5]

\* C8: when align_undulator has returned, the aperture is at dist_slit (21 m unless
\* supplied) from the source, less the distance between the two source points
\* exactly when the source is the U65 undulator.
C8_ApertureDistance ==
    trace = <<"align_undulator">> =>
        oe[path[2]].distance_from_previous =
            KwGet(req.kwargs, "dist_slit", 21000)
              - (IF path[1] = "undulator_U65"
                 THEN LongPos("DEIMOS_2") - LongPos("DEIMOS_1") ELSE 0)

C8_Witness ==
    /\ trace = <<"align_undulator">>
    /\ path[1] = "undulator_U65"
    /\ "dist_slit" \in DOMAIN req.kwargs
    /\ oe0[path[2]].distance_from_previous # 21000

\* C9: when align_m1 has returned, the flat mirror has the theta of the curved mirror
\* of the selected branch, its next link is that mirror, and that mirror's next link
\* is the element at path position 4.
C9_PeriscopeLinked ==
    "align_m1" \in Range(trace) =>
        /\ oe[path[3]].theta = oe[path[4]].theta
        /\ oe[path[3]].next = path[4]
        /\ oe[path[4]].next = path[5]

C9_Witness ==
    /\ trace = <<"align_undulator", "align_m1">>
    /\ oe0["m1a"].next = "m1b"
    /\ oe["m1a"].next = "m1c"
    /\ oe["m1a"].theta = 1200

\* C10: when align_m1 has returned, the element at path position 4 is at dist_next
\* (5 m unless supplied) for the branch M1C, and at dist_next plus
\* m1_distances[1][1] - m1_distances[0][1] exactly for the branch M1B.
C10_NextDistance ==
    trace = <<"align_undulator", "align_m1">> =>
        oe[path[5]].distance_from_previous =
            KwGet(req.kwargs, "dist_next", 5000)
              + (IF path[4] = "m1b"
                 THEN req.m1_distances[2][2] - req.m1_distances[1][2] ELSE 0)

C10_Witness ==
    /\ trace = <<"align_undulator", "align_m1">>
    /\ path[4] = "m1b"
    /\ "dist_next" \in DOMAIN req.kwargs
    /\ oe0[path[5]].distance_from_previous # 5000

\* The elements whose name mentions a grating.
NamedGratings == {e \in Elements : NamesAGrating(e)}

\* C11: when align_mono returns on a chain whose grating is at position g, the
\* element at g+1 has theta equal to half the deviation the solver returned and is at
\* GM2_trans_dist/sin(deviation) from the grating, the element at g+2 is at
\* GM3_proj_dist - GM2_trans_dist/tan(deviation) from it, and no element other than
\* the grating and these two is changed (nor the angle of the element at g+2).
C11_MonoGeometry ==
    [][(Running("align_mono") /\ err' = "none") =>
          LET g == CHOOSE i \in 1..Len(path) : path[i] \in NamedGratings
              dev == AlignGrating(req.alignment_condition, req.alignment_condition_value,
                                  alignment_wvl(req), OrderAlign(path[g]),
                                  LineDensity(path[g])).deviation
          IN  /\ oe'[path[g + 1]].theta = dev \div 2
              /\ oe'[path[g + 1]].distance_from_previous =
                     (req.GM2_trans_dist * 100000) \div Sin5(dev)
              /\ oe'[path[g + 2]].distance_from_previous =
                     req.GM3_proj_dist - (req.GM2_trans_dist * 100000) \div Tan5(dev)
              /\ oe'[path[g + 2]].theta = oe[path[g + 2]].theta
              /\ \A e \in Elements \ {path[g], path[g + 1], path[g + 2]} : oe'[e] = oe[e]]_vars

C11_Witness ==
    /\ Aligned
    /\ req.alignment_condition = "cff"
    /\ path[5] = "grating_2400"
    /\ oe["m2"].theta = 4280
    /\ oe["m2"].distance_from_previous # oe["m3"].distance_from_previous
    /\ oe["m2"].distance_from_previous # oe0["m2"].distance_from_previous

\* The running (or last) call asks for a fixed deviation of 0 or pi.
DegenerateDeviation ==
    /\ req.alignment_condition = "omega"
    /\ 2 * req.alignment_condition_value \in {0, 180000}

\* C12 (as claimed): when the condition value makes the solver return a deviation of
\* exactly 0 or pi, align_mono ends with an error and no element is left with an
\* infinite or NaN distance_from_previous.
C12_DegenerateRaises ==
    ("align_mono" \in Range(trace) /\ DegenerateDeviation) =>
        /\ err # "none"
        /\ \A e \in Elements : oe[e].distance_from_previous \notin {Inf, -Inf, NaN}

DelegatedErrors == {"ValueError", "IndexError", "UnknownCondition", "DelegateError"}

\* The columns of a table other than the energy column.
Columns(table) == DOMAIN table \ {EnergyKey}

\* C14 (as claimed): for every non-empty energy array, whatever its length, a sweep
\* in which no delegated call fails returns, and the table it returns holds the
\* energy column and exactly one column per (configuration, condition value) pair,
\* each with one result per energy.
C14_TableComplete ==
    /\ sw.pc = "failed" => sw.err \in DelegatedErrors
    /\ sw.pc = "done" =>
          /\ resolution.bound
          /\ EnergyKey \in DOMAIN resolution.table
          /\ resolution.table[EnergyKey] = sw.energy
          /\ Cardinality(Columns(resolution.table)) =
                 Len(sw.active_chains) * Len(sw.alignment_condition_values)
          /\ \A key \in Columns(resolution.table) :
                 Len(resolution.table[key]) = Len(sw.energy)

\* C15 (as claimed): within a sweep two different (configuration, condition value)
\* pairs never share a column key, so a column of the table, once written, is never
\* written again.
C15_WriteOnce ==
    [][sw'.n = sw.n =>
          \A key \in DOMAIN sw.resolution :
              /\ key \in DOMAIN sw'.resolution
              /\ sw'.resolution[key] = sw.resolution[key]]_vars

\* C16: the get_resolution calls of a sweep are made configuration by configuration
\* in list order and, for each configuration, energy by energy in array order; the
\* i-th entry of every column, stored or being collected, is the result computed at
\* the i-th energy.
C16_SweepOrder ==
    LET E == Len(sw.energy)
        K == Len(sw.active_chains)
    IN  /\ \A n \in 1..Len(log) :
              /\ log[n].algn = sw.alignment_condition_values[(n - 1) \div (K * E) + 1]
              /\ log[n].config = sw.active_chains[(((n - 1) \div E) % K) + 1]
              /\ log[n].E = sw.energy[((n - 1) % E) + 1]
        /\ \A key \in Columns(sw.resolution) :
              /\ Len(sw.resolution[key]) = E
              /\ \A i \in 1..E : sw.resolution[key][i].wavelength = Wavelength(sw.energy[i])
        /\ sw.pc = "for_energy" => \A i \in 1..Len(sw.curves) :
              /\ sw.curves[i].wavelength = Wavelength(sw.energy[i])
              /\ sw.curves[i].chain = active_chain
              /\ sw.curves[i].alignment_condition_value = sw.alignment_condition_values[sw.algn]

C16_Witness ==
    /\ sw.pc = "done"
    /\ Len(sw.active_chains) = 2
    /\ Len(sw.alignment_condition_values) = 2
    /\ Len(log) = 40

\* C17: once a delegated call of a sweep has failed, the sweep makes no further call
\* and changes nothing: the failed call is the last call of the sweep, and it is made
\* once.
C17_FailFast ==
    [][/\ (sw.pc = "failed" /\ sw'.n = sw.n) => (log' = log /\ sw' = sw /\ oe' = oe)
       /\ \A n \in 1..Len(log') : ~ log'[n].ok => n = Len(log')
       /\ (Len(log') > 0 /\ ~ log'[Len(log')].ok) => sw'.pc = "failed"]_vars

C17_Witness ==
    /\ sw.pc = "failed"
    /\ sw.err = "DelegateError"
    /\ sw.algn = 2
    /\ sw.k = 2
    /\ sw.i = 4
    /\ Len(log) = 34

\* C18 (as claimed): when a failure has stopped a sweep, every result computed before
\* the failure is in the table the caller holds.
C18_PartialResultsRetained ==
    sw.pc = "failed" =>
        \A n \in 1..Len(log) :
            log[n].ok =>
                /\ resolution.bound
                /\ \E key \in Columns(resolution.table) :
                       log[n].res \in Range(resolution.table[key])

\* C19: under "omega", every alignment of a sweep leaves M2 with a grazing angle equal
\* to the condition value and M2 and M3 with distances that depend on that value
\* only: from one energy to the next of a curve they do not change, while the
\* angles of the grating do.
C19_OmegaIndependentOfWavelength ==
    [][(sw.alignment_condition = "omega" /\ Len(log') = Len(log) + 1 /\ log'[Len(log')].ok) =>
          LET c == chains[active]
              g == CHOOSE i \in 1..Len(c) : c[i] \in NamedGratings
              algn == sw.alignment_condition_values[sw.algn]
          IN  /\ oe'[c[g + 1]].theta = algn
              /\ oe'[c[g + 1]].distance_from_previous =
                     (DefaultGM2 * 100000) \div Sin5(2 * algn)
              /\ oe'[c[g + 2]].distance_from_previous =
                     DefaultGM3 - (DefaultGM2 * 100000) \div Tan5(2 * algn)
              /\ sw.i > 1 =>
                     /\ oe'[c[g + 1]].theta = oe[c[g + 1]].theta
                     /\ oe'[c[g + 1]].distance_from_previous =
                            oe[c[g + 1]].distance_from_previous
                     /\ oe'[c[g + 2]].distance_from_previous =
                            oe[c[g + 2]].distance_from_previous
                     /\ oe'[c[g]].theta # oe[c[g]].theta]_vars

C19_Witness ==
    /\ sw.alignment_condition = "omega"
    /\ sw.pc = "for_energy"
    /\ Len(log) = 2
    /\ log[2].ok
    /\ log[1].res.wavelength # log[2].res.wavelength
    /\ oe["grating_2400"].theta = 18626
    /\ oe["m2"].theta = 692

\* The paths of the full expansion: 3 sources x 2 branches x 2 gratings x 3 endings.
ExpectedPaths ==
    { <<u, "pupil", "m1a", m, g, "m2", "m3", "foc_hor", "mono_exit_slit">> \o ending :
        u \in {"undulator_U52", "undulator_U65", "undulator_SII"},
        m \in {"m1b", "m1c"},
        g \in {"grating_1600", "grating_2400"},
        ending \in {<<>>, <<"m4a", "m5a", "cromag", "mk2t">>,
                    <<"m4b", "m5b", "cromag", "mk2t">>} }

\* The number of iterations the construction loop has made.
Iterations ==
    IF build = <<>> THEN 36
    ELSE (build[1] - 1) * 12 + (build[2] - 1) * 6 + (build[3] - 1) * 3 + (build[4] - 1)

\* C20: the construction loop stores a chain under a new name at every iteration,
\* and when it ends Deimos.chains holds 36 chains, which are exactly the paths
\* [source, pupil, M1A, M1B or M1C, grating, M2, M3, mono_foc_hor, mono_foc_ver]
\* followed by nothing or by the two mirrors of a Wolter branch and the two
\* endstations, one chain for each of the 3 x 2 x 2 x 3 combinations.
C20_ChainExpansion ==
    /\ Cardinality(DOMAIN chains) = Iterations
    /\ {chains[n] : n \in DOMAIN chains} \subseteq ExpectedPaths
    /\ build = <<>> =>
          /\ Cardinality(DOMAIN chains) = 36
          /\ {chains[n] : n \in DOMAIN chains} = ExpectedPaths
          /\ Cardinality(ExpectedPaths) = 36

C20_Witness ==
    /\ build = <<>>
    /\ Cardinality({n \in DOMAIN chains : Len(chains[n]) = 13}) = 24
    /\ Cardinality({n \in DOMAIN chains : Len(chains[n]) = 9}) = 12

\* The fields the alignment functions assign, by 0-based position on the path:
\* align_undulator tunes the source and places the aperture; align_m1 tilts and links
\* the flat mirror, links the curved mirror and places the grating; align_mono sets
\* the grating's angles, M2's angle and distance and M3's distance.
Assigned(i) ==
    CASE i = 0 -> {"tuned"}
      [] i = 1 -> {"distance_from_previous"}
      [] i = 2 -> {"theta", "next"}
      [] i = 3 -> {"next"}
      [] i = 4 -> {"distance_from_previous", "theta", "beta"}
      [] i = 5 -> {"theta", "distance_from_previous"}
      [] i = 6 -> {"distance_from_previous"}
      [] OTHER -> {}

Fields == {"theta", "distance_from_previous", "next", "tuned", "beta"}

\* C21: a set_bl call changes no field of an element that is not one of the first
\* seven of its path (source, aperture, flat mirror, curved mirror, grating, M2, M3),
\* on those only the fields the alignment functions assign, and the angles of the
\* curved mirrors and of M3 always are the ones of the parameter cells.
C21_FrameEffect ==
    calls > 0 =>
        /\ \A e \in Elements \ {path[i] : i \in 1..7} : oe[e] = oe0[e]
        /\ \A i \in 0..6 : \A f \in Fields \ Assigned(i) :
               oe[At(path, i)][f] = oe0[At(path, i)][f]
        /\ \A e \in {"m1b", "m1c", "m3"} : oe[e].theta = StaticOE[e].theta

\* A second call has aligned a chain with another source, branch, grating and
\* focusing branch than the call before it, and has changed elements.
C21_Witness ==
    /\ calls = 2
    /\ pc = 0
    /\ Aligned
    /\ last.chain # NoChain
    /\ \A i \in {1, 4, 5} : chains[last.chain][i] # path[i]
    /\ Len(chains[last.chain]) # Len(path)
    /\ oe # oe0

\* C22: at every get_resolution call of a sweep the active chain is the configuration
\* of the loop, the one whose name keys the column the result goes to; the path that
\* was aligned and measured is that configuration's path, and while the energy loop
\* of a (condition value, configuration) pair runs the active chain stays that
\* configuration.
C22_ActiveIsStoredConfig ==
    /\ \A n \in DOMAIN log :
           /\ log[n].active = log[n].config
           /\ log[n].ok => log[n].res.chain = chains[log[n].config]
    /\ sw.pc = "for_energy" => active = sw.active_chains[sw.k]
    /\ \A k \in DOMAIN sw.active_chains : \A a \in DOMAIN sw.alignment_condition_values :
           LET key == ColumnKey(sw.active_chains[k], sw.alignment_condition,
                                sw.alignment_condition_values[a])
           IN  key \in DOMAIN sw.resolution =>
                   \A res \in Range(sw.resolution[key]) :
                       res.chain = chains[sw.active_chains[k]]

\* A sweep over two configurations has returned: both were measured.
C22_Witness ==
    /\ sw.pc = "done"
    /\ \E m, n \in DOMAIN log :
           /\ log[m].ok /\ log[n].ok
           /\ log[m].config # log[n].config

\* C23: in a set_bl call the source is tuned to hc/energy_radiate and the grating is
\* solved for hc/energy_alignment; with dE = 0 the one batch of rays is generated at
\* hc/energy_radiate; energy_radiate defaults to energy_alignment, and then source,
\* grating and rays are all set for hc/energy_alignment.
C23_Wavelengths ==
    LET given == "energy_radiate" \in DOMAIN req.kwargs
        radiated == IF given THEN req.kwargs["energy_radiate"] ELSE req.energy_alignment
        grating == path[5]
        solved == SolverAngles(req.alignment_condition, req.alignment_condition_value,
                               hc \div req.energy_alignment, OrderAlign(grating),
                               LineDensity(grating))
    IN  /\ "align_undulator" \in Range(trace) => oe[path[1]].tuned = hc \div radiated
        /\ Aligned => oe[grating].theta = solved[1] /\ oe[grating].beta = solved[2]
        /\ "generate" \in Range(trace) /\ "dE" \notin DOMAIN req.kwargs =>
               rays = <<[call |-> calls, wvl |-> hc \div radiated]>>
        /\ "radiate" \in Range(trace) /\ ~given /\ "dE" \notin DOMAIN req.kwargs =>
               /\ oe[path[1]].tuned = hc \div req.energy_alignment
               /\ rays[1].wvl = oe[path[1]].tuned

\* A call with energy_radiate different from energy_alignment and dE = 0 has radiated:
\* the source is not tuned to the wavelength the grating was solved for.
C23_Witness ==
    /\ pc = 0
    /\ "radiate" \in Range(trace)
    /\ "energy_radiate" \in DOMAIN req.kwargs
    /\ "dE" \notin DOMAIN req.kwargs
    /\ oe[path[1]].tuned # hc \div req.energy_alignment
    /\ rays[1].wvl = oe[path[1]].tuned

\* C24: the angle pair the branch-distance table was derived from is the pair of
\* thetas of M1B and M1C, so that the angle align_m1 copies onto the flat mirror is
\* the angle of the table's row for the branch of the path.
C24_TableFromMirrorAngles ==
    "align_m1" \in Range(trace) =>
        /\ m1_grazing_angles = <<oe["m1b"].theta, oe["m1c"].theta>>
        /\ oe[path[3]].theta = m1_grazing_angles[IF path[4] = "m1b" THEN 1 ELSE 2]

\* C25: when set_undulator fails inside align_undulator the set_bl call ends with that
\* failure: align_undulator is the only step it ran (no align_m1, align_mono,
\* clear_impacts, generate or radiate), the aperture and every element other than the
\* source are as they were when the call started, and the rays and impacts of earlier
\* calls are still there.
C25_SourceFailurePropagates ==
    err = "SourceError" =>
        /\ pc = 0
        /\ trace = <<"align_undulator">>
        /\ oe[path[2]] = oe0[path[2]]
        /\ \A e \in Elements \ {path[1]} : oe[e] = oe0[e]
        /\ \A i \in DOMAIN rays : rays[i].call < calls
        /\ calls \notin impacts

\* The source failed in a call that would have moved the aperture, after a call that
\* had radiated.
C25_Witness ==
    /\ err = "SourceError"
    /\ calls = 2
    /\ rays # <<>>
    /\ oe[path[2]].distance_from_previous #
           AlignUndulator(oe, path, 0, req.kwargs)[path[2]].distance_from_previous

\* On every chain of the finished construction align_mono's scan stops at 0-based
\* position 4, and positions 5 and 6 exist and hold M2 and M3.
GratingSlots ==
    \A c \in DOMAIN BuiltChains :
        /\ Len(BuiltChains[c]) >= 7
        /\ MonoOePos(BuiltChains[c]) = 4
        /\ At(BuiltChains[c], 5) = "m2"
        /\ At(BuiltChains[c], 6) = "m3"

\* C26: every chain the construction loop has stored has its grating at position 4
\* and M2 and M3 at positions 5 and 6; a set_bl call on a built chain never ends with
\* align_mono finding no grating or indexing past the end of the chain, the element
\* align_m1 places (position 4) is the one align_mono takes for the grating, and the
\* two mirrors align_mono writes to are M2 and M3.
C26_GratingSlot ==
    /\ GratingSlots
    /\ \A c \in DOMAIN chains : chains[c] = BuiltChains[c]
    /\ err \notin {"IndexError", "ValueError"}
    /\ "align_mono" \in Range(trace) =>
           /\ At(path, 4) = At(path, MonoOePos(path))
           /\ At(path, MonoOePos(path) + 1) = "m2"
           /\ At(path, MonoOePos(path) + 2) = "m3"
           /\ MonoOePos(path) + 2 < Len(path)

\* A chain that ends at the exit slit, two elements after M3, has been aligned: the
\* element of position 4 has a diffraction angle and M2 is tilted.
C26_Witness ==
    /\ build = <<>>
    /\ Aligned
    /\ Len(path) = 9
    /\ oe[At(path, 4)].beta # 0
    /\ oe["m2"].theta # 0

\* C27: after a set_bl call on a built chain the next links lead from the aperture
\* through the rest of the path in path order: the next of every element of the path
\* from the aperture on, except the last, is the element that follows it on the path.
C27_NextLinksFollowChain ==
    pc = 0 /\ "radiate" \in Range(trace) =>
        \A i \in 2..(Len(path) - 1) : oe[path[i]].next = path[i + 1]

\* The names the notebook selects as active chain: the simulation example, the two
\* loops over configs, and the active_chains of the two resolution sweeps.
SelectedNames ==
    {U52_M1B_G1600_mono, U52_M1C_G1600_mono, U52_M1C_G2400_mono} \cup Range(configs)

\* C28: every name the notebook selects as active chain is a key of the chains the
\* construction loop builds; configs holds exactly 12 names, all different, none with
\* both M1B and G2400; the sweep never fails on an unknown key, and whenever it walks
\* the energies of a configuration energy_range is bound to the range one of the
\* three tests of that configuration assigned.
C28_SelectedAreBuilt ==
    /\ SelectedNames \subseteq DOMAIN BuiltChains
    /\ Len(configs) = 12
    /\ Cardinality(Range(configs)) = 12
    /\ \A n \in DOMAIN configs :
           ~(Mentions(<<"M", "1", "B">>, configs[n])
               /\ Mentions(<<"G", "2", "4", "0", "0">>, configs[n]))
    /\ st.err \notin {"KeyError", "NameError"}
    /\ st.pc # "idle" => st.configs = configs
    /\ st.pc \in {"for_energy", "set_bl", "stats", "save"} =>
           /\ active = st.configs[st.c]
           /\ active \in DOMAIN chains
           /\ Len(st.energy_range) = Len(StatsEnergy)
           /\ \/ Mentions(<<"M", "1", "B">>, active)
              \/ Mentions(<<"G", "1", "6", "0", "0">>, active)
              \/ Mentions(<<"G", "2", "4", "0", "0">>, active)
           /\ \E j \in DOMAIN st.energy_range : st.energy_range[j]

\* The sweep has gone through all its configurations and saved two files for each.
C28_Witness ==
    /\ st.pc = "done"
    /\ Len(st.saved) = 24
    /\ \A n \in DOMAIN configs : \E k \in DOMAIN st.saved : st.saved[k].chain = configs[n]

\* The indices of the energies inside the range of a configuration, in increasing
\* order: below 1500 eV on the M1B branch, between 500 and 2000 eV (ends excluded)
\* for G1600 on M1C, between 1000 and 2500 eV (ends excluded) for G2400 on M1C.
InsideRange(config) ==
    LET inside(E) ==
            IF Contains(<<"M", "1", "B">>, config) THEN E < 1500
            ELSE IF Contains(<<"G", "1", "6", "0", "0">>, config) THEN 500 < E /\ E < 2000
            ELSE 1000 < E /\ E < 2500
        all == [i \in DOMAIN StatsEnergy |-> i]
        test(i) == inside(StatsEnergy[i])
    IN  SelectSeq(all, test)

\* The set_bl calls, respectively the statistics writes, the sweep has made for a
\* configuration.
IsSetBlOf(config, e) == e.kind = "set_bl" /\ e.config = config
IsStatsOf(config, e) == e.kind = "stats" /\ e.config = config

\* C29: for every configuration the sweep is done with, the energy indices of its
\* set_bl calls are exactly the indices inside its energy range, each once and in
\* increasing order; every set_bl call of a G1600 chain has "cff" = 0.2 and every call
\* of a G2400 chain "omega" = 0.692 degree, at the energy of its index and on the chain
\* of its configuration; every statistics write of cell i comes right after the
\* set_bl call of energy i, and both dictionaries hold a measurement in the cells
\* inside the range and none outside.
C29_StatsSweepOrder ==
    /\ \A n \in 1..(st.c - 1) :
           LET config == st.configs[n]
               set_bls == SelectSeq(st.events, LAMBDA e : IsSetBlOf(config, e))
               writes == SelectSeq(st.events, LAMBDA e : IsStatsOf(config, e))
           IN  /\ [k \in DOMAIN set_bls |-> set_bls[k].i] = InsideRange(config)
               /\ [k \in DOMAIN writes |-> writes[k].i] = InsideRange(config)
    /\ \A k \in DOMAIN st.events :
           LET e == st.events[k]
           IN  /\ e.active = e.config
               /\ e.kind = "set_bl" =>
                      /\ e.i \in Range(InsideRange(e.config))
                      /\ e.call.chain = e.config
                      /\ e.call.energy_alignment = StatsEnergy[e.i]
                      /\ Contains(<<"G", "1", "6", "0", "0">>, e.config) =>
                             /\ e.call.alignment_condition = "cff"
                             /\ e.call.alignment_condition_value = 20
                      /\ Contains(<<"G", "2", "4", "0", "0">>, e.config) =>
                             /\ e.call.alignment_condition = "omega"
                             /\ e.call.alignment_condition_value = 692
                      /\ k > 1 /\ st.events[k - 1].config = e.config =>
                             st.events[k - 1].i < e.i
               /\ e.kind = "stats" =>
                      /\ k > 1
                      /\ st.events[k - 1].kind = "set_bl"
                      /\ st.events[k - 1].i = e.i
                      /\ st.events[k - 1].config = e.config
    /\ \A k \in DOMAIN st.saved :
           \A i \in DOMAIN StatsEnergy :
               st.saved[k].stats[i] # 0 <=> i \in Range(InsideRange(st.saved[k].chain))

\* The sweep is done: chains of both gratings and both mirror branches were aligned
\* and measured, at several energies each.
C29_Witness ==
    /\ st.pc = "done"
    /\ \E j, k \in DOMAIN st.events :
           /\ st.events[j].kind = "set_bl" /\ st.events[k].kind = "set_bl"
           /\ st.events[j].call.alignment_condition = "cff"
           /\ st.events[k].call.alignment_condition = "omega"
    /\ \A n \in DOMAIN configs : Len(InsideRange(configs[n])) >= 2

\* C30: a set_bl call that has radiated has generated at least one batch of rays after
\* clearing the source, whatever dE is: with dE = 0 one batch at hc/energy_radiate,
\* otherwise one batch per energy of the band, the energies starting at
\* energy_radiate*(1-dE) and following one another by 1 eV below energy_radiate*(1+dE).
C30_RaysBeforeRadiate ==
    "radiate" \in Range(trace) =>
        LET dE == KwGet(req.kwargs, "dE", 0)
            radiated == KwGet(req.kwargs, "energy_radiate", req.energy_alignment)
        IN  /\ Len(rays) >= 1
            /\ \A j \in DOMAIN rays : rays[j].call = calls
            /\ dE = 0 => rays = <<[call |-> calls, wvl |-> hc \div radiated]>>
            /\ dE # 0 =>
                   /\ \A j \in DOMAIN rays :
                          /\ rays[j].wvl =
                                 (100 * hc) \div (radiated * (100 - dE) + 100 * (j - 1))
                          /\ radiated * (100 - dE) + 100 * (j - 1) < radiated * (100 + dE)
                   /\ radiated * (100 - dE) + 100 * Len(rays) >= radiated * (100 + dE)

====
